---- MODULE Spec2Model ----
(***************************************************************************)
(* Model of webflow-github-sync/sync-service/incremental-scraper.js: the   *)
(* incremental crawl-and-diff engine (IncrementalScraper) together with    *)
(* the disk files it persists and the web server it scrapes.               *)
(*                                                                         *)
(* Strings that the code takes apart (URLs, paths, hrefs) are sequences of *)
(* one-character strings; the scheme prefix "https://" is one token.       *)
(* Time is milliseconds since the first run; the clock moves in steps of   *)
(* TickMs between runs (a run takes far less than one step).               *)
(***************************************************************************)
EXTENDS Integers, Sequences, FiniteSets, TLC

VARIABLES
  clock,          \* Date.now(), in ms
  server,         \* the scraped site: pathname -> [status, lastModified, html]
  edits,          \* number of site edits so far (bounded)
  cacheFile,      \* metadata/scrape-cache.json
  lastSyncFile,   \* metadata/last-sync.json
  historyFile,    \* metadata/sync-history.json
  runs,           \* number of processes started so far
  pc,             \* position of the current process in run()
  fullScrape,     \* this.fullScrape
  cache,          \* this.cache
  pagesScraped,   \* this.pagesScraped
  pagesSkipped,   \* this.pagesSkipped
  filesUpdated,   \* this.filesUpdated
  inlineCounts,   \* <<this.inlineStyleCount, this.inlineScriptCount>>
  allLinks,       \* run(): allLinks
  idx,            \* loop index of the for-of loop being executed (1-based)
  pagesToScrape,  \* determinePagesToScrape(): pagesToScrape
  pageResults,    \* run(): pageResults
  pagesInFlight,  \* indices of pagesToScrape whose GET is sent and not yet answered
  assetsToFetch,  \* run(): assetsToFetch
  chunkNo,        \* index of the chunk being processed (1-based)
  chunkResults,   \* per asset of the current chunk: "idle", "pending", or its result
  assetResults,   \* run(): assetResults
  exitCode,       \* process exit code, -1 while running
  gets,           \* history: URLs requested with GET by this process, in order
  probes,         \* history: the HEAD probes of determinePagesToScrape: url and value returned
  assetGets,      \* history: the assets requested by this process, in order
  written,        \* history: <<subdir, filename>> of every content file written
  diskAtStart,    \* history: the three metadata files as the process found them
  prevRun,        \* history: the last completed run, and whether the site is as it was then
  keyArg,         \* argument of the normalizeCacheKey call under test
  keyRes,         \* its result
  keyDone,        \* whether the call has returned
  remote,         \* the server a fetchUrl call under test talks to: URL -> answer
  call,           \* the fetchUrl / getLastModified call under test
  globals,        \* the names the worker's global scope defines
  secrets,        \* the worker's env: which of GITHUB_TOKEN, GITHUB_REPO are set
  loaded,         \* the worker module: "no", "ok" or "failed"
  request,        \* the request the worker is handling, or NoRequest
  response,       \* the response to it, or NoResponse
  scheduled,      \* the dispatch tasks handed to ctx.waitUntil and not yet run
  dispatches      \* history: the repository_dispatch calls made, with their outcome

vars == <<clock, server, edits, cacheFile, lastSyncFile, historyFile, runs, pc,
          fullScrape, cache, pagesScraped, pagesSkipped, filesUpdated,
          inlineCounts, allLinks, idx, pagesToScrape, pageResults,
          pagesInFlight, assetsToFetch, chunkNo, chunkResults, assetResults,
          exitCode, gets, probes, assetGets, written, diskAtStart, prevRun,
          keyArg, keyRes, keyDone, remote, call, globals, secrets, loaded,
          request, response, scheduled, dispatches>>

envVars == <<clock, server, edits>>
diskVars == <<cacheFile, lastSyncFile, historyFile>>
keyVars == <<keyArg, keyRes, keyDone>>
fetchVars == <<remote, call>>
workerVars == <<globals, secrets, loaded, request, response, scheduled, dispatches>>
\* the units exercised on their own
unitVars == <<keyVars, fetchVars, workerVars>>
procVars == <<pc, fullScrape, cache, pagesScraped, pagesSkipped, filesUpdated,
              inlineCounts, allLinks, idx, pagesToScrape, pageResults,
              pagesInFlight, assetsToFetch, chunkNo, chunkResults,
              assetResults, exitCode, gets, probes, assetGets, written,
              diskAtStart>>

----------------------------------------------------------------------------
(* Bounds of the model *)

MaxRuns == 3
MaxClock == 3
MaxEdits == 1
MaxLen == 4
MaxAssets == 7
MaxHistRuns == 102

(* Program constants *)

CONCURRENT_ASSET_LIMIT == 5
CACHE_MAX_AGE_MS == 86400000
MIN_INLINE_SCRIPT_LENGTH == 100
SYNC_HISTORY_MAX == 100

\* one step of the clock: 12 hours
TickMs == CACHE_MAX_AGE_MS \div 2

----------------------------------------------------------------------------
(* Strings *)

Scheme == "https://"
Letters == {"a", "b", "c", "d", "h", "j", "m", "n", "s"}
\* the value null (of a header that is absent), distinct from every header value
Null == "null"

IsPrefix(p, s) == Len(p) <= Len(s) /\ SubSeq(s, 1, Len(p)) = p

Range(s) == {s[i] : i \in DOMAIN s}

\* s.replace(/\/$/, '')
StripTrailingSlash(s) ==
  IF Len(s) > 0 /\ s[Len(s)] = "/" THEN SubSeq(s, 1, Len(s) - 1) ELSE s

\* index of the first element of s that is in set cs, or Len(s)+1
RECURSIVE FirstIn(_, _, _)
FirstIn(s, cs, i) ==
  IF i > Len(s) THEN Len(s) + 1
  ELSE IF s[i] \in cs THEN i ELSE FirstIn(s, cs, i + 1)

\* whether new URL(s) succeeds: an absolute https URL with a non-empty host
ValidURL(s) ==
  /\ Len(s) >= 2
  /\ s[1] = Scheme
  /\ s[2] \in Letters

\* new URL(s) for a valid s: origin, pathname, search and hash
ParseURL(s) ==
  LET hostEnd == FirstIn(s, {"/", "?", "#"}, 2)
      pathEnd == FirstIn(s, {"?", "#"}, hostEnd)
      qEnd    == FirstIn(s, {"#"}, pathEnd)
      rawPath == SubSeq(s, hostEnd, pathEnd - 1)
  IN [origin   |-> SubSeq(s, 1, hostEnd - 1),
      pathname |-> IF rawPath = <<>> THEN <<"/">> ELSE rawPath,
      search   |-> SubSeq(s, pathEnd, qEnd - 1),
      hash     |-> SubSeq(s, qEnd, Len(s))]

\* IncrementalScraper.normalizeCacheKey: in
\*   u.origin + u.pathname.replace(/\/$/, '') || u.origin + '/'
\* the + binds tighter than ||, so the right operand is used only when the
\* whole left concatenation is the empty string
normalizeCacheKey(url) ==
  IF ~ValidURL(url) THEN url
  ELSE LET u == ParseURL(url)
           left == u.origin \o StripTrailingSlash(u.pathname)
       IN IF left # <<>> THEN left ELSE u.origin \o <<"/">>

\* IncrementalScraper.normalizeUrl
normalizeUrl(url) ==
  LET normalized == IF Len(url) > 0 /\ url[1] = Scheme THEN url ELSE <<Scheme>> \o url
      stripped == StripTrailingSlash(normalized)
  IN IF stripped # <<>> THEN stripped ELSE normalized

----------------------------------------------------------------------------
(* The scraped site *)

Origin == <<Scheme, "h">>
\* process.env.WEBFLOW_SITE_URL
RawSiteUrl == <<Scheme, "h", "/">>

PathRoot == <<"/">>
PathAbout == <<"/", "a">>
PathCss == <<"/", "s", ".", "c", "s", "s">>
PathJs == <<"/", "m", ".", "j", "s">>
\* a script the site refers to but does not serve
PathGone == <<"/", "x", ".", "j", "s">>
\* a page the site links to but does not serve
PathMissing == <<"/", "n">>

\* a page of another site, whose origin begins with this site's origin
ElsewhereUrl == <<Scheme, "h", "x", "/", "b">>

\* elements of an HTML document, in document order
Anchor(href) == [tag |-> "a", url |-> href, len |-> 0]
LinkTag(href) == [tag |-> "link", url |-> href, len |-> 0]
\* <script src=url>body</script>; url = <<>> when there is no src; len is the
\* length of the trimmed body
ScriptTag(src, n) == [tag |-> "script", url |-> src, len |-> n]
StyleTag(n) == [tag |-> "style", url |-> <<>>, len |-> n]

Html(name, elems) == [id |-> name, elements |-> elems]

HomeNoLinks == Html("home0", <<ScriptTag(<<>>, 99)>>)
HomeAbout == Html("home1", <<Anchor(PathAbout), ScriptTag(PathJs, 0), ScriptTag(<<>>, 120)>>)
HomeRoot == Html("home2", <<LinkTag(PathCss), Anchor(PathMissing), Anchor(PathRoot),
                          Anchor(PathAbout \o <<"/">>), Anchor(ElsewhereUrl),
                          StyleTag(3), ScriptTag(PathGone, 0)>>)
\* a homepage with a link to a page, a stylesheet link and one inline script of
\* 120 characters
HomeSample == Html("home3", <<Anchor(PathAbout), LinkTag(PathCss), ScriptTag(<<>>, 120)>>)
\* a page whose inline script has exactly MIN_INLINE_SCRIPT_LENGTH characters
AboutOne == Html("about1", <<Anchor(PathRoot), ScriptTag(PathJs, 0), ScriptTag(<<>>, 100)>>)
\* a page whose external script tag has a body of 120 characters
AboutTwo == Html("about2", <<Anchor(PathRoot), ScriptTag(PathGone, 120), StyleTag(0)>>)
AssetBody == Html("asset", <<>>)
NotFoundBody == Html("404", <<>>)

ServerPaths == {PathRoot, PathAbout}
StaticPaths == {PathCss, PathJs}
VersionsOf(path) ==
  IF path = PathRoot THEN {HomeNoLinks, HomeAbout, HomeRoot, HomeSample} ELSE {AboutOne, AboutTwo}

\* the Last-Modified header a page is served with; "" when there is none
NoHeader == ""
HeaderValues == {NoHeader, "d1", "d2"}

NetErr == [ok |-> FALSE, statusCode |-> 0, lastModified |-> NoHeader, body |-> NotFoundBody]

\* the outcomes fetchUrl(url) can have: a page answers as the site's state
\* says, a static asset answers 200, any other path of the site answers 404,
\* and a request to another host fails
Responses(url) ==
  IF ~ValidURL(url) THEN {NetErr}
  ELSE LET path == ParseURL(url).pathname IN
    IF ParseURL(url).origin # Origin THEN {NetErr}
    ELSE IF path \in ServerPaths THEN
      IF server[path].status = "down" THEN {NetErr}
      ELSE {[ok |-> TRUE, statusCode |-> 200,
             lastModified |-> server[path].lastModified, body |-> server[path].html]}
    ELSE IF path \in StaticPaths THEN
      {[ok |-> TRUE, statusCode |-> 200, lastModified |-> NoHeader, body |-> AssetBody]}
    ELSE {[ok |-> TRUE, statusCode |-> 404, lastModified |-> NoHeader, body |-> NotFoundBody]}

\* result.headers['last-modified'] || null
HeaderOrNull(h) == IF h = NoHeader THEN Null ELSE h

\* IncrementalScraper.getLastModified, given the outcome of the HEAD request
getLastModified(resp) == IF resp.ok THEN HeaderOrNull(resp.lastModified) ELSE Null

\* IncrementalScraper.hashContent: the SHA-256 digest, one per content
hashContent(html) == <<"sha256", html.id>>

----------------------------------------------------------------------------
(* HTML extraction *)

AddUnique_Always(s, x) == Append(s, x)

\* ordered, duplicate-free insertion (Set.add followed by Array.from)
AddUnique(s, x) == IF x \in Range(s) THEN s ELSE Append(s, x)

\* new URL(href, baseUrl): <<TRUE, parsed>> or <<FALSE, _>> when it throws
Resolve(href, baseUrl) ==
  LET base == ParseURL(baseUrl) IN
  IF href = <<>> THEN <<TRUE, base>>
  ELSE IF href[1] = Scheme THEN
    IF ValidURL(href) THEN <<TRUE, ParseURL(href)>> ELSE <<FALSE, base>>
  ELSE IF href[1] = "/" THEN <<TRUE, ParseURL(base.origin \o href)>>
  ELSE <<FALSE, base>>

UrlHref(u) == u.origin \o u.pathname \o u.search \o u.hash

\* match[1].split('#')[0].split('?')[0]
CutQueryAndHash(href) == SubSeq(href, 1, FirstIn(href, {"#", "?"}, 1) - 1)

SkippedScheme(href) == href # <<>> /\ href[1] \in {"mailto:", "tel:", "javascript:"}

sameOrigin_Any(fullUrl, base) == TRUE

\* fullUrl.origin === base.origin
sameOrigin(fullUrl, base) == fullUrl.origin = base.origin

RECURSIVE LinksFrom(_, _, _, _)
LinksFrom(elems, i, baseUrl, acc) ==
  IF i > Len(elems) THEN acc
  ELSE
    LET e == elems[i]
        href == CutQueryAndHash(e.url)
        r == Resolve(href, baseUrl)
        base == ParseURL(baseUrl)
        path == IF r[2].pathname = <<"/">> THEN base.origin \o <<"/">>
                ELSE r[2].origin \o StripTrailingSlash(r[2].pathname)
        keep == /\ e.tag \in {"a", "link"}
                /\ href # <<>>
                /\ ~SkippedScheme(href)
                /\ r[1]
                /\ sameOrigin(r[2], base)
    IN LinksFrom(elems, i + 1, baseUrl, IF keep THEN AddUnique(acc, path) ELSE acc)

\* IncrementalScraper.extractInternalLinks
extractInternalLinks(html, baseUrl) == LinksFrom(html.elements, 1, baseUrl, <<>>)

CDN_DOMAINS == {<<"c", "d", "n">>}

Contains(s, sub) == \E i \in 1..(Len(s) - Len(sub) + 1) : SubSeq(s, i, i + Len(sub) - 1) = sub

\* IncrementalScraper.isCdnUrl
isCdnUrl(url) ==
  /\ ValidURL(url)
  /\ \E cdn \in CDN_DOMAINS : Contains(Tail(ParseURL(url).origin), cdn)

\* the href of a <link> matches [^"']+\.css[^"']*
HasCssSuffix(href) ==
  \E i \in 2..(Len(href) - 3) : SubSeq(href, i, i + 3) = <<".", "c", "s", "s">>

RECURSIVE AssetsFrom(_, _, _, _, _)
AssetsFrom(elems, i, baseUrl, kind, acc) ==
  IF i > Len(elems) THEN acc
  ELSE
    LET e == elems[i]
        r == Resolve(e.url, baseUrl)
        url == UrlHref(r[2])
        keep == /\ IF kind = "css" THEN e.tag = "link" /\ HasCssSuffix(e.url)
                   ELSE e.tag = "script" /\ e.url # <<>>
                /\ r[1]
                /\ ~isCdnUrl(url)
    IN AssetsFrom(elems, i + 1, baseUrl, kind, IF keep THEN Append(acc, url) ELSE acc)

\* IncrementalScraper.extractAssets
extractAssets(html, baseUrl) ==
  [css |-> AssetsFrom(html.elements, 1, baseUrl, "css", <<>>),
   js  |-> AssetsFrom(html.elements, 1, baseUrl, "js", <<>>)]

\* IncrementalScraper.extractInlineStyles: the trimmed non-empty bodies
extractInlineStyles(html) ==
  SelectSeq(html.elements, LAMBDA e : e.tag = "style" /\ e.len > 0)

\* IncrementalScraper.extractInlineScripts: the trimmed bodies of at least
\* MIN_INLINE_SCRIPT_LENGTH characters
extractInlineScripts(html) ==
  SelectSeq(html.elements, LAMBDA e : e.tag = "script" /\ e.len >= MIN_INLINE_SCRIPT_LENGTH)

fetchPageOk_AnyStatus(resp) == resp.ok

\* whether fetchPage(url) returns rather than throws, given the GET's outcome
fetchPageOk(resp) == resp.ok /\ resp.statusCode = 200

\* IncrementalScraper.fetchPage: the value returned
fetchPage(url, resp) ==
  [url |-> url,
   html |-> resp.body,
   hash |-> hashContent(resp.body),
   lastModified |-> HeaderOrNull(resp.lastModified),
   links |-> extractInternalLinks(resp.body, url),
   assets |-> extractAssets(resp.body, url),
   inlineStyles |-> extractInlineStyles(resp.body),
   inlineScripts |-> extractInlineScripts(resp.body)]

chunkArray_OffByOne(arr, size) ==
  [k \in 1..((Len(arr) + size) \div (size + 1)) |->
     SubSeq(arr, (k - 1) * (size + 1) + 1,
            IF k * (size + 1) < Len(arr) THEN k * (size + 1) ELSE Len(arr))]

\* IncrementalScraper.chunkArray
chunkArray(arr, size) ==
  [k \in 1..((Len(arr) + size - 1) \div size) |->
     SubSeq(arr, (k - 1) * size + 1, IF k * size < Len(arr) THEN k * size ELSE Len(arr))]

----------------------------------------------------------------------------
(* Files and the cache *)

EmptyMap == [k \in {} |-> 0]
Put(f, k, v) == [x \in (DOMAIN f) \cup {k} |-> IF x = k THEN v ELSE f[x]]

\* a file that does not exist, and a file holding JSON.stringify(d)
AbsentFile == [kind |-> "absent", data |-> <<>>]
JsonFile(d) == [kind |-> "json", data |-> d]
\* a file that cannot be read, whose content is no JSON, or whose content is
\* JSON for null or for a primitive: readFile or JSON.parse throws, or reading
\* or setting .assets on the parsed value throws (a class body is strict code)
GarbageFile == [kind |-> "garbage", data |-> <<>>]
\* a file holding JSON that is neither what the program writes nor garbage:
\* for the history, a value that is no array
NonListFile == [kind |-> "nonlist", data |-> <<>>]

\* { assets: {} }: page entries are kept apart from the nested assets map;
\* shape tells what kind of value this.cache is: a plain object, an array
\* (which takes page entries as properties but loses them in JSON.stringify),
\* or an object whose assets member is a number, a string or true
EmptyCache == [pages |-> EmptyMap, assets |-> EmptyMap, shape |-> "object"]
ArrayCache == [pages |-> EmptyMap, assets |-> EmptyMap, shape |-> "array"]
BadAssetsCache == [pages |-> EmptyMap, assets |-> EmptyMap, shape |-> "badassets"]

loadCache_IgnoresFile(file) == EmptyCache

\* IncrementalScraper.loadCache: the value of this.cache afterwards
loadCache(file) == IF file.kind = "json" THEN file.data ELSE EmptyCache

\* IncrementalScraper.saveCache: the file written
saveCache(c) == JsonFile(IF c.shape = "array" THEN ArrayCache ELSE c)

\* the site URL after the constructor's normalizeUrl
SiteUrl == normalizeUrl(RawSiteUrl)

----------------------------------------------------------------------------
(* Initial state *)

ProcInit ==
  /\ pc = "idle"
  /\ fullScrape = FALSE
  /\ cache = EmptyCache
  /\ pagesScraped = 0
  /\ pagesSkipped = 0
  /\ filesUpdated = 0
  /\ inlineCounts = <<0, 0>>
  /\ allLinks = <<>>
  /\ idx = 0
  /\ pagesToScrape = <<>>
  /\ pageResults = <<>>
  /\ pagesInFlight = {}
  /\ assetsToFetch = <<>>
  /\ chunkNo = 0
  /\ chunkResults = <<>>
  /\ assetResults = <<>>
  /\ exitCode = -1
  /\ gets = <<>>
  /\ probes = <<>>
  /\ assetGets = <<>>
  /\ written = <<>>
  /\ diskAtStart = <<AbsentFile, AbsentFile, AbsentFile>>

NoRun == [completed |-> FALSE, allFetched |-> FALSE, links |-> <<>>, scraped |-> <<>>,
          time |-> 0, siteSame |-> FALSE]

EnvInit ==
  /\ clock = 0
  /\ server = [p \in ServerPaths |->
                 [status |-> "up", lastModified |-> IF p = PathRoot THEN NoHeader ELSE "d1",
                  html |-> IF p = PathRoot THEN HomeAbout ELSE AboutOne]]
  /\ edits = 0
  /\ cacheFile = AbsentFile
  /\ lastSyncFile = AbsentFile
  /\ historyFile = AbsentFile
  /\ runs = 0
  /\ prevRun = NoRun

KeyIdle ==
  /\ keyArg = <<>>
  /\ keyRes = <<>>
  /\ keyDone = FALSE

\* no fetchUrl call under test
NoCall == [state |-> "none"]
FetchIdle ==
  /\ remote = EmptyMap
  /\ call = NoCall

\* no worker deployed
NoRequest == [method |-> "none"]
NoResponse == [status |-> 0]
WorkerIdle ==
  /\ globals = {}
  /\ secrets = {}
  /\ loaded = "no"
  /\ request = NoRequest
  /\ response = NoResponse
  /\ scheduled = 0
  /\ dispatches = <<>>

UnitsIdle == KeyIdle /\ FetchIdle /\ WorkerIdle

Init == EnvInit /\ ProcInit /\ UnitsIdle

----------------------------------------------------------------------------
(* The environment: time passes and the site is edited between runs. The   *)
(* clock starts with the first run.                                        *)

Tick ==
  /\ pc = "idle"
  /\ runs >= 1
  /\ clock < MaxClock * TickMs
  /\ clock' = clock + TickMs
  /\ UNCHANGED <<server, edits, diskVars, runs, procVars, prevRun, unitVars>>

\* the site's owner republishes a page, changes what the server reports as
\* Last-Modified, or the page goes down or comes back
EditSite ==
  /\ pc = "idle"
  /\ edits < MaxEdits
  /\ \E p \in ServerPaths :
       \E st \in {"up", "down"}, lm \in HeaderValues, h \in VersionsOf(p) :
         LET new == [status |-> st, lastModified |-> lm, html |-> h] IN
         /\ new # server[p]
         /\ \/ new.status = server[p].status /\ new.lastModified = server[p].lastModified
            \/ new.status = server[p].status /\ new.html = server[p].html
            \/ new.lastModified = server[p].lastModified /\ new.html = server[p].html
         /\ server' = [server EXCEPT ![p] = new]
  /\ edits' = edits + 1
  /\ prevRun' = [prevRun EXCEPT !.siteSame = FALSE]
  /\ UNCHANGED <<clock, diskVars, runs, procVars, unitVars>>

\* between runs the cache file is damaged, or replaced by JSON of another shape
CorruptCache ==
  /\ pc = "idle"
  /\ edits < MaxEdits
  /\ cacheFile' \in {GarbageFile, JsonFile(ArrayCache), JsonFile(BadAssetsCache)}
  /\ edits' = edits + 1
  /\ prevRun' = [prevRun EXCEPT !.siteSame = FALSE]
  /\ UNCHANGED <<clock, server, lastSyncFile, historyFile, runs, procVars, unitVars>>

\* between runs the history file is damaged, or replaced by JSON that is no list
CorruptHistory ==
  /\ pc = "idle"
  /\ edits < MaxEdits
  /\ historyFile' \in {GarbageFile, NonListFile}
  /\ edits' = edits + 1
  /\ prevRun' = [prevRun EXCEPT !.siteSame = FALSE]
  /\ UNCHANGED <<clock, server, cacheFile, lastSyncFile, runs, procVars, unitVars>>

----------------------------------------------------------------------------
(* One process: main() and IncrementalScraper.run() *)

\* main() with the constructor and the first lines of run(): the cache file is
\* read only when --full is absent. maxRuns bounds the number of processes and
\* flags is the set of values of process.argv.includes('--full') considered
StartRunWith(maxRuns, flags) ==
  /\ pc = "idle"
  /\ runs < maxRuns
  /\ \E full \in flags :
       /\ fullScrape' = full
       /\ cache' = IF full THEN EmptyCache ELSE loadCache(cacheFile)
  /\ runs' = runs + 1
  /\ pc' = "homepage"
  /\ diskAtStart' = <<cacheFile, lastSyncFile, historyFile>>
  /\ UNCHANGED <<envVars, diskVars, pagesScraped, pagesSkipped, filesUpdated,
                 inlineCounts, allLinks, idx, pagesToScrape, pageResults, pagesInFlight,
                 assetsToFetch, chunkNo, chunkResults, assetResults, exitCode,
                 gets, probes, assetGets, written, prevRun, unitVars>>

StartRun == StartRunWith(MaxRuns, BOOLEAN)

\* !this.fullScrape && this.cache[homepageCacheKey]
HasCachedHomepage ==
  ~fullScrape /\ normalizeCacheKey(SiteUrl) \in DOMAIN cache.pages

\* cachedHomepage?.links, <<>> when there is none
CachedLinks ==
  IF HasCachedHomepage THEN cache.pages[normalizeCacheKey(SiteUrl)].links ELSE <<>>

\* whether run() sends the homepage HEAD probe
HomepageProbed == Len(CachedLinks) > 0

homepageNeedsFetch_Always(head) == TRUE

\* homepageNeedsFetch, given the outcome of the HEAD probe (if one is sent)
homepageNeedsFetch(head) ==
  ~(HomepageProbed
    /\ getLastModified(head) = cache.pages[normalizeCacheKey(SiteUrl)].lastModified)

\* the loop building allLinks from the homepage's links
RECURSIVE BuildLinks(_, _, _)
BuildLinks(links, i, acc) ==
  IF i > Len(links) THEN acc
  ELSE BuildLinks(links, i + 1,
         IF links[i] \notin Range(acc) /\ IsPrefix(ParseURL(SiteUrl).origin, links[i])
         THEN Append(acc, links[i]) ELSE acc)

buildAllLinks(links) == BuildLinks(links, 1, <<SiteUrl>>)

\* run(), step 1: resolve the homepage and build the link list; an
\* unreachable homepage ends the process with exit code 1
ResolveHomepage ==
  /\ pc = "homepage"
  /\ \E head \in Responses(SiteUrl), get \in Responses(SiteUrl) :
       IF homepageNeedsFetch(head) THEN
         /\ gets' = Append(gets, SiteUrl)
         /\ IF fetchPageOk(get) THEN
              /\ allLinks' = buildAllLinks(fetchPage(SiteUrl, get).links)
              /\ pc' = "analyse"
              /\ idx' = 1
              /\ exitCode' = exitCode
            ELSE
              /\ pc' = "exited"
              /\ exitCode' = 1
              /\ UNCHANGED <<allLinks, idx>>
       ELSE
         /\ allLinks' = buildAllLinks(CachedLinks)
         /\ pc' = "analyse"
         /\ idx' = 1
         /\ UNCHANGED <<gets, exitCode>>
  /\ UNCHANGED <<envVars, diskVars, runs, fullScrape, cache, pagesScraped,
                 pagesSkipped, filesUpdated, inlineCounts, pagesToScrape,
                 pageResults, pagesInFlight, assetsToFetch, chunkNo, chunkResults,
                 assetResults, probes, assetGets, written, diskAtStart, prevRun, unitVars>>

\* !this.cache[cacheKey] is false
InCache(cacheKey) == cacheKey \in DOMAIN cache.pages

\* Date.now() - new Date(entry.timestamp).getTime(); the ISO string written
\* by toISOString() keeps the milliseconds
cacheAge(entry) == clock - entry.timestamp

CacheTooOld_Reversed(entry) == entry.timestamp - clock > CACHE_MAX_AGE_MS

\* cacheAge > CACHE_MAX_AGE_MS
CacheTooOld(entry) == cacheAge(entry) > CACHE_MAX_AGE_MS

LastModifiedDiffers_NullIsWildcard(lastModified, cachedModified) ==
  lastModified # Null /\ cachedModified # Null /\ lastModified # cachedModified

LastModifiedDiffers_Always(lastModified, cachedModified) ==
  lastModified # cachedModified \/ lastModified = cachedModified

\* lastModified !== cachedModified
LastModifiedDiffers(lastModified, cachedModified) == lastModified # cachedModified

ProbeNeeded_BeforeAgeCheck(url) ==
  ~fullScrape /\ InCache(normalizeCacheKey(url))

\* whether determinePagesToScrape reaches its step 4 for url and probes it
ProbeNeeded(url) ==
  /\ ~fullScrape
  /\ InCache(normalizeCacheKey(url))
  /\ ~CacheTooOld(cache.pages[normalizeCacheKey(url)])

NeedsScrape_MissingSkipped(url, head) ==
  fullScrape \/ InCache(normalizeCacheKey(url))

pushPage_Unshift(list, url) == <<url>> \o list

\* pagesToScrape.push(url)
pushPage(list, url) == Append(list, url)

needsScrapeWith_ComparesHash(pages, url, head) ==
  \/ fullScrape
  \/ normalizeCacheKey(url) \notin DOMAIN pages
  \/ CacheTooOld(pages[normalizeCacheKey(url)])
  \/ LastModifiedDiffers(getLastModified(head),
                         pages[normalizeCacheKey(url)].lastModified)
  \/ (head.ok /\ pages[normalizeCacheKey(url)].hash # hashContent(head.body))

\* the body of the loop of determinePagesToScrape, for a cache whose page
\* entries are pages: whether url is pushed, given the outcome of the HEAD
\* probe (read only at step 4)
needsScrapeWith(pages, url, head) ==
  \/ fullScrape
  \/ normalizeCacheKey(url) \notin DOMAIN pages
  \/ CacheTooOld(pages[normalizeCacheKey(url)])
  \/ LastModifiedDiffers(getLastModified(head),
                         pages[normalizeCacheKey(url)].lastModified)

\* the same, for this.cache
NeedsScrape(url, head) == needsScrapeWith(cache.pages, url, head)

\* determinePagesToScrape(links) for a cache whose page entries are pages:
\* <<pagesToScrape, pagesSkipped>> after the links from the i-th on
RECURSIVE determineWith(_, _, _, _)
determineWith(pages, links, i, acc) ==
  IF i > Len(links) THEN acc
  ELSE LET head == CHOOSE r \in Responses(links[i]) : TRUE IN
       determineWith(pages, links, i + 1,
         IF needsScrapeWith(pages, links[i], head)
         THEN <<pushPage(acc[1], links[i]), acc[2]>>
         ELSE <<acc[1], acc[2] + 1>>)

\* determinePagesToScrape: one iteration of the loop over links
DetermineStep ==
  /\ pc = "analyse"
  /\ idx <= Len(allLinks)
  /\ LET url == allLinks[idx] IN
     \E head \in Responses(url) :
       /\ IF NeedsScrape(url, head)
          THEN /\ pagesToScrape' = pushPage(pagesToScrape, url)
               /\ pagesSkipped' = pagesSkipped
          ELSE /\ pagesToScrape' = pagesToScrape
               /\ pagesSkipped' = pagesSkipped + 1
       /\ probes' = IF ProbeNeeded(url)
                    THEN Append(probes, [url |-> url, lastModified |-> getLastModified(head)])
                    ELSE probes
  /\ idx' = idx + 1
  /\ pc' = IF idx = Len(allLinks) THEN "count" ELSE "analyse"
  /\ UNCHANGED <<envVars, diskVars, runs, fullScrape, cache, pagesScraped,
                 filesUpdated, inlineCounts, allLinks, pageResults, pagesInFlight,
                 assetsToFetch, chunkNo, chunkResults, assetResults, exitCode,
                 gets, assetGets, written, diskAtStart, prevRun, unitVars>>

\* run(), step 2: the counts taken from the work list
CountPages ==
  /\ pc = "count"
  /\ pagesScraped' = Len(pagesToScrape)
  /\ pagesSkipped' = Len(allLinks) - Len(pagesToScrape)
  /\ pc' = "fetch"
  /\ idx' = 1
  /\ UNCHANGED <<envVars, diskVars, runs, fullScrape, cache, filesUpdated,
                 inlineCounts, allLinks, pagesToScrape, pageResults, pagesInFlight,
                 assetsToFetch, chunkNo, chunkResults, assetResults, exitCode,
                 gets, probes, assetGets, written, diskAtStart, prevRun, unitVars>>

mayRequestPage_NoAwait == TRUE

\* run(), step 3: `await this.fetchPage(url)` inside the for-of loop, the next
\* iteration starts only when no page GET is outstanding
mayRequestPage == pagesInFlight = {}

\* run(), step 3: the loop reaches pagesToScrape[idx] and sends its GET
RequestPage ==
  /\ pc = "fetch"
  /\ idx <= Len(pagesToScrape)
  /\ mayRequestPage
  /\ pagesInFlight' = pagesInFlight \cup {idx}
  /\ gets' = Append(gets, pagesToScrape[idx])
  /\ idx' = idx + 1
  /\ UNCHANGED <<envVars, diskVars, runs, pc, fullScrape, cache, pagesScraped,
                 pagesSkipped, filesUpdated, inlineCounts, allLinks,
                 pagesToScrape, pageResults, assetsToFetch, chunkNo,
                 chunkResults, assetResults, exitCode, probes, assetGets, written, diskAtStart,
                 prevRun, unitVars>>

\* run(), step 3: an outstanding GET is answered or fails; fetchPage returns
\* and the result is pushed, or it throws and the catch drops the page
PageResponse ==
  /\ pc = "fetch"
  /\ \E i \in pagesInFlight :
       \E get \in Responses(pagesToScrape[i]) :
         /\ pageResults' = IF fetchPageOk(get)
                           THEN Append(pageResults, fetchPage(pagesToScrape[i], get))
                           ELSE pageResults
         /\ pagesInFlight' = pagesInFlight \ {i}
  /\ UNCHANGED <<envVars, diskVars, runs, pc, fullScrape, cache, pagesScraped,
                 pagesSkipped, filesUpdated, inlineCounts, allLinks, idx,
                 pagesToScrape, assetsToFetch, chunkNo, chunkResults,
                 assetResults, exitCode, gets, probes, assetGets, written, diskAtStart, prevRun, unitVars>>

RECURSIVE AssetsOfPages(_, _, _)
AssetsOfPages(pages, i, acc) ==
  IF i > Len(pages) THEN acc
  ELSE
    LET css == [k \in 1..Len(pages[i].assets.css) |->
                  [url |-> pages[i].assets.css[k], type |-> "css"]]
        js  == [k \in 1..Len(pages[i].assets.js) |->
                  [url |-> pages[i].assets.js[k], type |-> "js"]]
        RECURSIVE AddAll(_, _, _)
        AddAll(xs, k, a) == IF k > Len(xs) THEN a ELSE AddAll(xs, k + 1, AddUnique(a, xs[k]))
    IN AssetsOfPages(pages, i + 1, AddAll(js, 1, AddAll(css, 1, acc)))

RECURSIVE Flatten(_, _)
Flatten(seqs, i) == IF i > Len(seqs) THEN <<>> ELSE seqs[i] \o Flatten(seqs, i + 1)

\* allInlineStyles and allInlineScripts of run()
AllInlineStyles == Flatten([i \in 1..Len(pageResults) |-> pageResults[i].inlineStyles], 1)
AllInlineScripts == Flatten([i \in 1..Len(pageResults) |-> pageResults[i].inlineScripts], 1)

\* run(): the unique assets of the fetched pages, once the page loop is over
CollectAssets ==
  /\ pc = "fetch"
  /\ idx > Len(pagesToScrape)
  /\ pagesInFlight = {}
  /\ assetsToFetch' = AssetsOfPages(pageResults, 1, <<>>)
  /\ chunkNo' = 1
  /\ chunkResults' = <<>>
  /\ assetResults' = <<>>
  /\ pc' = "assets"
  /\ UNCHANGED <<envVars, diskVars, runs, fullScrape, cache, pagesScraped,
                 pagesSkipped, filesUpdated, inlineCounts, allLinks, idx,
                 pagesToScrape, pageResults, pagesInFlight, exitCode, gets, probes, assetGets, written, diskAtStart,
                 prevRun, unitVars>>

----------------------------------------------------------------------------
(* run(), step 4: the asset fetch pool *)

Chunks == chunkArray(assetsToFetch, CONCURRENT_ASSET_LIMIT)

Pending == [state |-> "pending", size |-> 0]

\* IncrementalScraper.fetchAsset: null, or the content with its size
fetchAsset(resp) ==
  IF resp.ok /\ resp.statusCode = 200
  THEN [state |-> "ok", size |-> Len(resp.body.elements) + 1]
  ELSE [state |-> "null", size |-> 0]

\* the asset requests sent and not yet answered
InFlight == {i \in DOMAIN chunkResults : chunkResults[i].state = "pending"}

\* chunk.map(a => this.fetchAsset(a.url)): every request of the chunk is sent
\* before the await
chunkRequests(c) == [i \in 1..Len(c) |-> Pending]

StartChunk ==
  /\ pc = "assets"
  /\ chunkNo <= Len(Chunks)
  /\ chunkResults = <<>>
  /\ chunkResults' = chunkRequests(Chunks[chunkNo])
  /\ assetGets' = assetGets \o Chunks[chunkNo]
  /\ UNCHANGED <<envVars, diskVars, runs, pc, fullScrape, cache, pagesScraped,
                 pagesSkipped, filesUpdated, inlineCounts, allLinks, idx,
                 pagesToScrape, pageResults, pagesInFlight, assetsToFetch, chunkNo,
                 assetResults, exitCode, gets, probes, written, diskAtStart, prevRun, unitVars>>

\* one request of the current chunk is answered, or fails
AssetResponse ==
  /\ pc = "assets"
  /\ \E i \in InFlight :
       \E resp \in Responses(Chunks[chunkNo][i].url) :
         chunkResults' = [chunkResults EXCEPT ![i] = fetchAsset(resp)]
  /\ UNCHANGED <<envVars, diskVars, runs, pc, fullScrape, cache, pagesScraped,
                 pagesSkipped, filesUpdated, inlineCounts, allLinks, idx,
                 pagesToScrape, pageResults, pagesInFlight, assetsToFetch, chunkNo,
                 assetResults, exitCode, gets, probes, assetGets, written, diskAtStart, prevRun, unitVars>>

RECURSIVE Successes(_, _, _)
Successes(chunk, results, i) ==
  IF i > Len(chunk) THEN <<>>
  ELSE (IF results[i].state = "ok"
        THEN <<[url |-> chunk[i].url, type |-> chunk[i].type, size |-> results[i].size]>>
        ELSE <<>>) \o Successes(chunk, results, i + 1)

allSettled_AnyOne(results) == \E i \in DOMAIN results : results[i].state # "pending"

\* await Promise.all(...): every fetchAsset of the chunk has returned (none
\* rejects: fetchAsset catches)
allSettled(results) == \A i \in DOMAIN results : results[i].state # "pending"

\* Promise.all has resolved: the non-null results are kept and the loop goes on
ChunkDone ==
  /\ pc = "assets"
  /\ chunkResults # <<>>
  /\ allSettled(chunkResults)
  /\ assetResults' = assetResults \o Successes(Chunks[chunkNo], chunkResults, 1)
  /\ chunkNo' = chunkNo + 1
  /\ chunkResults' = <<>>
  /\ UNCHANGED <<envVars, diskVars, runs, pc, fullScrape, cache, pagesScraped,
                 pagesSkipped, filesUpdated, inlineCounts, allLinks, idx,
                 pagesToScrape, pageResults, pagesInFlight, assetsToFetch, exitCode, gets,
                 probes, assetGets, written, diskAtStart, prevRun, unitVars>>

PoolDone ==
  /\ pc = "assets"
  /\ chunkNo > Len(Chunks)
  /\ pc' = "save"
  /\ UNCHANGED <<envVars, diskVars, runs, fullScrape, cache, pagesScraped,
                 pagesSkipped, filesUpdated, inlineCounts, allLinks, idx,
                 pagesToScrape, pageResults, pagesInFlight, assetsToFetch, chunkNo,
                 chunkResults, assetResults, exitCode, gets, probes, assetGets, written, diskAtStart,
                 prevRun, unitVars>>

----------------------------------------------------------------------------
(* run(), steps 5 and 6: files and metadata *)

\* a-zA-Z0-9
WordChars ==
  {"a", "b", "c", "d", "e", "f", "g", "h", "i", "j", "k", "l", "m", "n", "o",
   "p", "q", "r", "s", "t", "u", "v", "w", "x", "y", "z",
   "A", "B", "C", "D", "E", "F", "G", "H", "I", "J", "K", "L", "M", "N", "O",
   "P", "Q", "R", "S", "T", "U", "V", "W", "X", "Y", "Z",
   "0", "1", "2", "3", "4", "5", "6", "7", "8", "9"}

SafeChars_WithPlus == WordChars \cup {"-", "_", "+"}

\* the characters kept by .replace(/[^a-zA-Z0-9-_]/g, '-')
SafeChars == WordChars \cup {"-", "_"}

IndexName == <<"i", "n", "d", "e", "x">>

StripLeadingSlash(s) == IF Len(s) > 0 /\ s[1] = "/" THEN Tail(s) ELSE s

\* name.replace(/\.html?$/i, '')
StripHtmlSuffix(s) ==
  LET lower(c) == CASE c = "H" -> "h" [] c = "T" -> "t" [] c = "M" -> "m"
                    [] c = "L" -> "l" [] OTHER -> c
      tail(n) == [k \in 1..n |-> lower(s[Len(s) - n + k])]
  IN IF Len(s) >= 5 /\ tail(5) = <<".", "h", "t", "m", "l">> THEN SubSeq(s, 1, Len(s) - 5)
     ELSE IF Len(s) >= 4 /\ tail(4) = <<".", "h", "t", "m">> THEN SubSeq(s, 1, Len(s) - 4)
     ELSE s

\* .replace(/[^a-zA-Z0-9-_]/g, '-').replace(/-+/g, '-')
RECURSIVE Dashed(_, _)
Dashed(s, i) ==
  IF i > Len(s) THEN <<>>
  ELSE LET c == IF s[i] \in SafeChars THEN s[i] ELSE "-"
           rest == Dashed(s, i + 1)
       IN IF c = "-" /\ rest # <<>> /\ rest[1] = "-" THEN rest ELSE <<c>> \o rest

\* .replace(/^-|-$/g, '')
TrimDashes(s) ==
  LET a == IF Len(s) > 0 /\ s[1] = "-" THEN Tail(s) ELSE s
  IN IF Len(a) > 0 /\ a[Len(a)] = "-" THEN SubSeq(a, 1, Len(a) - 1) ELSE a

OrIndex(s) == IF s = <<>> THEN IndexName ELSE s

\* IncrementalScraper.urlToFilename; ext is one token. For a string that is no
\* URL the name is 'page' followed by random characters, written "*"
urlToFilename(url, ext) ==
  IF ~ValidURL(url) THEN <<"p", "a", "g", "e", "*", ext>>
  ELSE
    LET p0 == ParseURL(url).pathname
        n1 == IF p0 = <<"/">> \/ p0 = <<>> THEN IndexName ELSE p0
        n2 == OrIndex(StripTrailingSlash(StripLeadingSlash(n1)))
        n3 == StripHtmlSuffix(n2)
        n4 == TrimDashes(Dashed(n3, 1))
    IN Append(OrIndex(n4), ext)

PageEntry_DropsLastModified(page) ==
  [hash |-> page.hash, lastModified |-> Null,
   timestamp |-> clock, links |-> page.links]

\* the cache entry written for a fetched page
PageEntry(page) ==
  [hash |-> page.hash, lastModified |-> page.lastModified,
   timestamp |-> clock, links |-> page.links]

RECURSIVE SavePages(_, _, _)
SavePages(pages, i, c) ==
  IF i > Len(pages) THEN c
  ELSE SavePages(pages, i + 1,
         [c EXCEPT !.pages = Put(c.pages, normalizeCacheKey(pages[i].url), PageEntry(pages[i]))])

RECURSIVE SaveAssetEntries(_, _, _)
SaveAssetEntries(assets, i, c) ==
  IF i > Len(assets) THEN c
  ELSE SaveAssetEntries(assets, i + 1,
         [c EXCEPT !.assets = Put(c.assets, assets[i].url,
                                  [timestamp |-> clock, size |-> assets[i].size])])

\* the HTML files written by step 5, in order
PageFilesSaved ==
  [i \in 1..Len(pageResults) |-> <<"html", urlToFilename(pageResults[i].url, ".html")>>]

\* the file an external asset is saved to
AssetFile(asset) ==
  <<asset.type, urlToFilename(asset.url, IF asset.type = "css" THEN ".css" ELSE ".js")>>

\* the content files written by step 5, in order
FilesSaved ==
  PageFilesSaved
  \o [i \in 1..Len(assetResults) |-> AssetFile(assetResults[i])]
  \o [i \in 1..Len(AllInlineStyles) |-> <<"css", <<"inline-", i - 1, ".css">>>>]
  \o [i \in 1..Len(AllInlineScripts) |-> <<"js", <<"inline-", i - 1, ".js">>>>]

\* this.cache.assets[asset.url] = {...} throws a TypeError when
\* this.cache.assets is a primitive
assetEntryThrows == cache.shape = "badassets" /\ assetResults # <<>>

SaveFiles_PersistsCache ==
  /\ pc = "save"
  /\ IF assetEntryThrows THEN
       /\ written' = written \o PageFilesSaved \o <<AssetFile(assetResults[1])>>
       /\ filesUpdated' = Len(PageFilesSaved) + 1
       /\ cache' = SavePages(pageResults, 1, cache)
       /\ inlineCounts' = inlineCounts
       /\ pc' = "exited"
       /\ exitCode' = 1
     ELSE
       /\ written' = written \o FilesSaved
       /\ filesUpdated' = Len(FilesSaved)
       /\ cache' = SaveAssetEntries(assetResults, 1, SavePages(pageResults, 1, cache))
       /\ inlineCounts' = <<inlineCounts[1] + Len(AllInlineStyles),
                            inlineCounts[2] + Len(AllInlineScripts)>>
       /\ pc' = "meta"
       /\ exitCode' = exitCode
  /\ cacheFile' = saveCache(cache')
  /\ UNCHANGED <<envVars, lastSyncFile, historyFile, runs, fullScrape, pagesScraped, pagesSkipped,
                 allLinks, idx, pagesToScrape, pageResults, pagesInFlight,
                 assetsToFetch, chunkNo, chunkResults, assetResults, gets,
                 probes, assetGets, diskAtStart, prevRun, unitVars>>

\* run(), step 5: content files are written and this.cache is updated. When
\* the first asset entry cannot be set, the exception leaves run() after the
\* pages and the first asset are written, and main() exits with code 1
SaveFiles ==
  /\ pc = "save"
  /\ IF assetEntryThrows THEN
       /\ written' = written \o PageFilesSaved \o <<AssetFile(assetResults[1])>>
       /\ filesUpdated' = Len(PageFilesSaved) + 1
       /\ cache' = SavePages(pageResults, 1, cache)
       /\ inlineCounts' = inlineCounts
       /\ pc' = "exited"
       /\ exitCode' = 1
     ELSE
       /\ written' = written \o FilesSaved
       /\ filesUpdated' = Len(FilesSaved)
       /\ cache' = SaveAssetEntries(assetResults, 1, SavePages(pageResults, 1, cache))
       /\ inlineCounts' = <<inlineCounts[1] + Len(AllInlineStyles),
                            inlineCounts[2] + Len(AllInlineScripts)>>
       /\ pc' = "meta"
       /\ exitCode' = exitCode
  /\ UNCHANGED <<envVars, diskVars, runs, fullScrape, pagesScraped, pagesSkipped,
                 allLinks, idx, pagesToScrape, pageResults, pagesInFlight,
                 assetsToFetch, chunkNo, chunkResults, assetResults, gets,
                 probes, assetGets, diskAtStart, prevRun, unitVars>>

\* the lastSync record (timings left out; run numbers the process that wrote it)
LastSync ==
  [run |-> runs, timestamp |-> clock, siteUrl |-> SiteUrl,
   pagesScraped |-> pagesScraped, pagesSkipped |-> pagesSkipped,
   totalPages |-> Len(allLinks), filesUpdated |-> filesUpdated,
   fullScrape |-> fullScrape]

\* history = JSON.parse(...), [] when the file cannot be read
loadHistory(file) == IF file.kind = "json" THEN file.data ELSE <<>>

\* s.slice(0, n)
SliceTo(n, s) == SubSeq(s, 1, IF Len(s) < n THEN Len(s) ELSE n)

rotateHistory_NoCap(history, rec) == <<rec>> \o history

\* history.unshift(lastSync); history.slice(0, SYNC_HISTORY_MAX)
rotateHistory(history, rec) == SliceTo(SYNC_HISTORY_MAX, <<rec>> \o history)

\* history.unshift throws a TypeError when the parsed value has no such method
historyThrows(file) == file.kind = "nonlist"

\* run(), step 6: the cache, the last-sync record and the history are written,
\* run() returns success and main() exits with code 0. When the history
\* cannot be extended the exception leaves run() after the first two files
\* are written, and main() exits with code 1
UpdateMetadata ==
  /\ pc = "meta"
  /\ cacheFile' = saveCache(cache)
  /\ lastSyncFile' = JsonFile(LastSync)
  /\ IF historyThrows(historyFile) THEN
       /\ historyFile' = historyFile
       /\ pc' = "exited"
       /\ exitCode' = 1
       /\ prevRun' = prevRun
     ELSE
       /\ historyFile' = JsonFile(rotateHistory(loadHistory(historyFile), LastSync))
       /\ pc' = "done"
       /\ exitCode' = 0
       /\ prevRun' = [completed |-> TRUE,
                      allFetched |-> Len(pageResults) = Len(pagesToScrape),
                      links |-> allLinks, scraped |-> pagesToScrape,
                      time |-> clock, siteSame |-> TRUE]
  /\ UNCHANGED <<envVars, runs, fullScrape, cache, pagesScraped, pagesSkipped,
                 filesUpdated, inlineCounts, allLinks, idx, pagesToScrape,
                 pageResults, pagesInFlight, assetsToFetch, chunkNo, chunkResults,
                 assetResults, gets, probes, assetGets, written, diskAtStart, unitVars>>

\* no process is left; the next one starts from the constructor's state
ProcessGone ==
  /\ pc' = "idle"
  /\ fullScrape' = FALSE
  /\ cache' = EmptyCache
  /\ pagesScraped' = 0
  /\ pagesSkipped' = 0
  /\ filesUpdated' = 0
  /\ inlineCounts' = <<0, 0>>
  /\ allLinks' = <<>>
  /\ idx' = 0
  /\ pagesToScrape' = <<>>
  /\ pageResults' = <<>>
  /\ pagesInFlight' = {}
  /\ assetsToFetch' = <<>>
  /\ chunkNo' = 0
  /\ chunkResults' = <<>>
  /\ assetResults' = <<>>
  /\ exitCode' = -1
  /\ gets' = <<>>
  /\ probes' = <<>>
  /\ assetGets' = <<>>
  /\ written' = <<>>
  /\ diskAtStart' = <<AbsentFile, AbsentFile, AbsentFile>>

\* process.exit has been called
EndProcess ==
  /\ pc \in {"done", "exited"}
  /\ ProcessGone
  /\ UNCHANGED <<envVars, diskVars, runs, prevRun, unitVars>>

\* the process is killed from outside while run() is at any of its steps
Kill ==
  /\ pc \notin {"idle", "done", "exited"}
  /\ ProcessGone
  /\ UNCHANGED <<envVars, diskVars, runs, prevRun, unitVars>>

Next ==
  \/ Tick
  \/ EditSite
  \/ CorruptCache
  \/ CorruptHistory
  \/ StartRun
  \/ ResolveHomepage
  \/ DetermineStep
  \/ CountPages
  \/ RequestPage
  \/ PageResponse
  \/ CollectAssets
  \/ StartChunk
  \/ AssetResponse
  \/ ChunkDone
  \/ PoolDone
  \/ SaveFiles
  \/ UpdateMetadata
  \/ EndProcess
  \/ Kill

Spec == Init /\ [][Next]_vars

----------------------------------------------------------------------------
(* Change detection: claims C1 to C5 *)

\* positions of run() at which determinePagesToScrape has returned and
\* this.cache is still as it was loaded
Analysed == {"count", "fetch", "assets", "save"}

\* the links determinePagesToScrape has gone through so far
Decided ==
  IF pc = "analyse" THEN SubSeq(allLinks, 1, idx - 1)
  ELSE IF pc \in Analysed THEN allLinks ELSE <<>>

EntryOf(url) == cache.pages[normalizeCacheKey(url)]

\* url has a cache entry that is not older than the freshness ceiling
FreshEntry(url) ==
  /\ InCache(normalizeCacheKey(url))
  /\ clock - EntryOf(url).timestamp <= CACHE_MAX_AGE_MS

\* the probes recorded for url
ProbesOf(url) == {i \in DOMAIN probes : probes[i].url = url}

\* C1: with the full-rescrape flag the work list is the discovered link list,
\* same elements in the same order, whatever the cache file holds
C1_FullRunTakesEveryLink ==
  fullScrape /\ pc \in {"analyse"} \cup Analysed => pagesToScrape = Decided

\* a full run has analysed a link list of several URLs while the cache file
\* holds, for one of them, a fresh entry whose Last-Modified is what the server
\* still reports
C1_Witness ==
  /\ fullScrape
  /\ pc = "count"
  /\ Len(allLinks) >= 2
  /\ cacheFile.kind = "json"
  /\ \E i \in DOMAIN allLinks :
       LET key == normalizeCacheKey(allLinks[i]) IN
       /\ key \in DOMAIN cacheFile.data.pages
       /\ clock - cacheFile.data.pages[key].timestamp <= CACHE_MAX_AGE_MS
       /\ \E r \in Responses(allLinks[i]) :
            getLastModified(r) = cacheFile.data.pages[key].lastModified

\* the cache file is absent or has no page entry
NoPageEntries ==
  cacheFile.kind = "absent"
  \/ (cacheFile.kind = "json" /\ DOMAIN cacheFile.data.pages = {})

\* C2: on an incremental run with the cache file absent or without page
\* entries, every discovered URL is in the work list and nothing is skipped
C2_EmptyCacheTakesEveryLink ==
  ~fullScrape /\ NoPageEntries /\ pc \in {"analyse"} \cup Analysed =>
    /\ pagesToScrape = Decided
    /\ pagesSkipped = 0

C2_Witness ==
  /\ ~fullScrape
  /\ cacheFile.kind = "absent"
  /\ pc = "fetch"
  /\ Len(allLinks) >= 2
  /\ pagesSkipped = 0

\* C3: on an incremental run a URL whose cache entry is older than 24 hours is
\* in the work list, whatever Last-Modified the server reports
C3_StaleEntryRefetched ==
  ~fullScrape =>
    \A i \in DOMAIN Decided :
      LET url == Decided[i] IN
      (InCache(normalizeCacheKey(url))
       /\ clock - EntryOf(url).timestamp > CACHE_MAX_AGE_MS)
      => url \in Range(pagesToScrape)

\* a stale entry whose Last-Modified equals what the server reports now
C3_Witness ==
  /\ ~fullScrape
  /\ pc = "count"
  /\ \E i \in DOMAIN allLinks :
       LET url == allLinks[i] IN
       /\ InCache(normalizeCacheKey(url))
       /\ clock - EntryOf(url).timestamp > CACHE_MAX_AGE_MS
       /\ EntryOf(url).lastModified # Null
       /\ \E r \in Responses(url) : r.ok /\ getLastModified(r) = EntryOf(url).lastModified
       /\ url \in Range(pagesToScrape)

\* the probes of this run that returned the cached Last-Modified
MatchingProbes ==
  {i \in DOMAIN probes : probes[i].lastModified = EntryOf(probes[i].url).lastModified}

\* C4: on an incremental run a URL with an entry younger than 24 hours whose
\* cached Last-Modified equals the probe's value is left out of the work list
\* and counted once: the detector's counter is the number of such URLs after
\* every iteration, and so is the run's final pagesSkipped
C4_MatchingProbeSkipped ==
  ~fullScrape /\ pc \in {"analyse"} \cup Analysed =>
    /\ \A i \in DOMAIN Decided :
         LET url == Decided[i] IN
         (FreshEntry(url) /\ \E j \in ProbesOf(url) : j \in MatchingProbes)
         => url \notin Range(pagesToScrape)
    /\ pagesSkipped = Cardinality(MatchingProbes)
    /\ pagesSkipped = Len(Decided) - Len(pagesToScrape)

\* an incremental run has finished its analysis and its count with a skipped URL
C4_Witness ==
  /\ ~fullScrape
  /\ pc = "fetch"
  /\ MatchingProbes # {}
  /\ pagesSkipped >= 1
  /\ pagesToScrape # <<>>

\* a and b differ as Last-Modified values: present on one side only, or
\* present on both sides and not the same
HeadersDiffer(a, b) ==
  \/ a = Null /\ b # Null
  \/ a # Null /\ b = Null
  \/ a # Null /\ b # Null /\ a # b

\* C5: on an incremental run a URL with an entry younger than 24 hours is
\* probed, and it is in the work list iff the probe's Last-Modified differs
\* from the cached one (absent on one side only differs, absent on both is equal)
C5_RefetchedIffLastModifiedDiffers ==
  ~fullScrape =>
    \A i \in DOMAIN Decided :
      LET url == Decided[i] IN
      FreshEntry(url) =>
        /\ ProbesOf(url) # {}
        /\ \A j \in ProbesOf(url) :
             url \in Range(pagesToScrape)
               <=> HeadersDiffer(probes[j].lastModified, EntryOf(url).lastModified)

\* in one analysis, a URL refetched because only one side has a Last-Modified
\* and a URL skipped because neither side has one
C5_Witness ==
  /\ ~fullScrape
  /\ pc = "count"
  /\ \E j, k \in DOMAIN probes :
       /\ probes[j].lastModified = Null
       /\ EntryOf(probes[j].url).lastModified # Null
       /\ probes[j].url \in Range(pagesToScrape)
       /\ probes[k].lastModified = Null
       /\ EntryOf(probes[k].url).lastModified = Null
       /\ probes[k].url \notin Range(pagesToScrape)

----------------------------------------------------------------------------
(* Content changes and repeated runs: claims C6 and C7 *)

\* the page the site serves at url now, when it answers 200
Served(url) == {r \in Responses(url) : fetchPageOk(r)}

\* C6: on an incremental run a page whose content differs from the content
\* captured at its last fetch (its SHA-256 differs from the cached hash) is
\* placed in the work list
C6_ChangedContentRefetched ==
  ~fullScrape =>
    \A i \in DOMAIN Decided :
      LET url == Decided[i] IN
      (InCache(normalizeCacheKey(url))
       /\ \E r \in Served(url) : hashContent(r.body) # EntryOf(url).hash)
      => url \in Range(pagesToScrape)

\* an incremental run is past its analysis, the last completed run had every
\* page fetch succeed and started less than 24 hours before, and the site has
\* not been edited since
SecondRunSoonAfter ==
  /\ ~fullScrape
  /\ pc \in Analysed \cup {"meta"}
  /\ prevRun.completed
  /\ prevRun.allFetched
  /\ prevRun.siteSame
  /\ clock - prevRun.time < CACHE_MAX_AGE_MS

\* nothing is to be fetched, nothing was fetched in the changed-pages phase
\* and no content file was written
NothingRefetched ==
  /\ pagesToScrape = <<>>
  /\ pageResults = <<>>
  /\ written = <<>>
  /\ pc = "meta" => filesUpdated = 0

----------------------------------------------------------------------------
(* The history file over many runs: claim C8 *)

\* full runs only, one after the other, against the site as first published
HistStartRun == StartRunWith(MaxHistRuns, {TRUE})

HistNext ==
  \/ HistStartRun
  \/ ResolveHomepage
  \/ DetermineStep
  \/ CountPages
  \/ RequestPage
  \/ PageResponse
  \/ CollectAssets
  \/ StartChunk
  \/ AssetResponse
  \/ ChunkDone
  \/ PoolDone
  \/ SaveFiles
  \/ UpdateMetadata
  \/ EndProcess

SpecHistory == Init /\ [][HistNext]_vars

\* the number of runs that have written their metadata (every run of
\* SpecHistory completes)
CompletedRuns == IF pc \in {"done", "idle"} THEN runs ELSE runs - 1

Min(a, b) == IF a < b THEN a ELSE b

\* C8: after any number of completed runs sync-history.json holds at most 100
\* records, the most recent run's record first and the others in order of
\* recency behind it; beyond 100 runs the oldest records are the ones dropped
C8_HistoryKeepsNewestHundred ==
  LET h == loadHistory(historyFile) IN
  /\ Len(h) <= SYNC_HISTORY_MAX
  /\ Len(h) = Min(CompletedRuns, SYNC_HISTORY_MAX)
  /\ \A i \in DOMAIN h : h[i].run = CompletedRuns - i + 1

\* more runs have completed than the history can hold
C8_Witness ==
  /\ pc = "done"
  /\ runs > SYNC_HISTORY_MAX
  /\ Len(loadHistory(historyFile)) = SYNC_HISTORY_MAX
  /\ loadHistory(historyFile)[1].run = runs

----------------------------------------------------------------------------
(* The asset fetch pool on its own: claim C9 *)

\* the i-th asset of a page: a script the site serves, or one it does not
PoolUrl(i, served) ==
  Origin \o (IF served THEN PathJs ELSE PathGone) \o <<"?">> \o [k \in 1..i |-> "v"]

\* a run at the start of its asset phase, with up to MaxAssets distinct assets
PoolInit ==
  /\ EnvInit
  /\ UnitsIdle
  /\ pc = "assets"
  /\ fullScrape = TRUE
  /\ cache = EmptyCache
  /\ pagesScraped = 1
  /\ pagesSkipped = 0
  /\ filesUpdated = 0
  /\ inlineCounts = <<0, 0>>
  /\ allLinks = <<SiteUrl>>
  /\ idx = 2
  /\ pagesToScrape = <<SiteUrl>>
  /\ pageResults = <<>>
  /\ pagesInFlight = {}
  /\ \E n \in 0..MaxAssets :
       \E served \in [1..n -> BOOLEAN] :
         assetsToFetch = [i \in 1..n |-> [url |-> PoolUrl(i, served[i]), type |-> "js"]]
  /\ chunkNo = 1
  /\ chunkResults = <<>>
  /\ assetResults = <<>>
  /\ exitCode = -1
  /\ gets = <<SiteUrl, SiteUrl>>
  /\ probes = <<>>
  /\ assetGets = <<>>
  /\ written = <<>>
  /\ diskAtStart = <<AbsentFile, AbsentFile, AbsentFile>>

PoolNext ==
  \/ StartChunk
  \/ AssetResponse
  \/ ChunkDone
  \/ PoolDone

SpecPool == PoolInit /\ [][PoolNext]_vars

\* C9: at every moment of the asset phase, however many assets there are to
\* fetch, at most 5 asset requests are in flight
C9_AtMostFiveInFlight == Cardinality(InFlight) <= CONCURRENT_ASSET_LIMIT

\* more assets than the limit, with as many requests in flight as the limit allows
C9_Witness ==
  /\ Len(assetsToFetch) > CONCURRENT_ASSET_LIMIT
  /\ Cardinality(InFlight) = CONCURRENT_ASSET_LIMIT

----------------------------------------------------------------------------
(* normalizeCacheKey on its own: claim C10 *)

KeyAlphabet == {Scheme, "h", "a", "/", "?", "#"}

\* the strings tried: any string with no scheme, and any https URL whose host
\* starts right after the scheme
KeyInputs ==
  {s \in UNION {[1..n -> KeyAlphabet] : n \in 0..MaxLen} :
     /\ \A i \in 2..Len(s) : s[i] # Scheme
     /\ (Len(s) >= 2 /\ s[1] = Scheme) => s[2] \in Letters}

KeyInit ==
  /\ EnvInit
  /\ ProcInit
  /\ FetchIdle
  /\ WorkerIdle
  /\ keyArg \in KeyInputs
  /\ keyRes = <<>>
  /\ keyDone = FALSE

NormalizeCall ==
  /\ ~keyDone
  /\ keyRes' = normalizeCacheKey(keyArg)
  /\ keyDone' = TRUE
  /\ UNCHANGED <<envVars, diskVars, runs, procVars, prevRun, keyArg, fetchVars, workerVars>>

SpecKey == KeyInit /\ [][NormalizeCall]_vars

\* C10: for a well-formed URL normalizeCacheKey returns origin + path with
\* any trailing slash removed, origin + "/" when the path is the root; query
\* and fragment never appear in the key
C10_KeyIsOriginAndPath ==
  (keyDone /\ ValidURL(keyArg)) =>
    LET u == ParseURL(keyArg) IN
    keyRes = IF u.pathname = <<"/">> THEN u.origin \o <<"/">>
             ELSE u.origin \o StripTrailingSlash(u.pathname)

----------------------------------------------------------------------------
(* normalizeCacheKey applied to its own result: claim C11 *)

\* C11: normalizeCacheKey is idempotent, normalizing a key it returned gives
\* that key again, for well-formed and malformed input alike; and a malformed
\* input is returned unchanged
C11_KeyIsIdempotent ==
  keyDone =>
    /\ normalizeCacheKey(keyRes) = keyRes
    /\ ~ValidURL(keyArg) => keyRes = keyArg

----------------------------------------------------------------------------
(* A first run, end to end: claim C12 *)

\* the site is the sample site, every URL of which answers 200, and a run
\* that found no cache file is about to persist its metadata
SampleFirstRun ==
  /\ pc = "meta"
  /\ cacheFile.kind = "absent"
  /\ server[PathRoot].html = HomeSample
  /\ \A p \in ServerPaths : server[p].status = "up"

\* C12: a first run over the sample site (homepage linking to /a, to the
\* stylesheet /s.css, with one inline script of 120 characters) writes
\* html/index.html, html/a.html, css/s.css and js/inline-0.js, and the cache it
\* persists has exactly two page entries, keyed origin + "/" and origin + "/a"
C12_SampleRunFilesAndKeys ==
  SampleFirstRun =>
    /\ {<<"html", IndexName \o <<".html">>>>,
        <<"html", <<"a", ".html">>>>,
        <<"css", <<"s", ".css">>>>,
        <<"js", <<"inline-", 0, ".js">>>>} \subseteq Range(written)
    /\ DOMAIN saveCache(cache).data.pages = {Origin \o <<"/">>, Origin \o PathAbout}

----------------------------------------------------------------------------
(* Exit codes and failures: claims C13 to C16 *)

\* every request to the site URL fails for the whole of the current run (the
\* site changes only between runs)
HomepageUnreachable ==
  pc # "idle" /\ \A r \in Responses(SiteUrl) : ~r.ok

\* C13: when the homepage is unreachable for the whole run, the run goes no
\* further than the homepage step and the process exits with code 1; a run
\* that completes exits with code 0
C13_UnreachableHomepageExitsOne ==
  /\ (HomepageUnreachable /\ pc # "homepage") => (pc = "exited" /\ exitCode = 1)
  /\ pc = "done" => exitCode = 0

\* the elements of urls that answer 200 to a GET during the current run
Answering(urls) == SelectSeq(urls, LAMBDA u : Served(u) # {})

UrlsOf(rs) == [i \in DOMAIN rs |-> rs[i].url]

\* the number of pages of the work list whose fetch has resolved or failed
PagesResolved ==
  IF pc \in {"idle", "homepage", "analyse", "count"} THEN 0
  ELSE IF pc = "fetch" THEN idx - 1 - Cardinality(pagesInFlight)
  ELSE Len(pagesToScrape)

AssetPhaseOver == pc \in {"save", "meta", "done", "exited"}

MalformedCacheAtStart ==
  /\ pc # "idle"
  /\ \/ diskAtStart[1].kind # "json"
     \/ diskAtStart[1].data.shape # "object"

\* C15: an incremental run that finds such a cache file goes on with an empty
\* cache as a first run does, every discovered URL is in the work list and
\* nothing is skipped, and no exception ends it: it exits with code 1 only
\* when the homepage cannot be fetched or the history file stops it
C15_MalformedCacheIsEmptyCache ==
  (MalformedCacheAtStart /\ ~fullScrape) =>
    /\ pc \in {"analyse"} \cup Analysed => (pagesToScrape = Decided /\ pagesSkipped = 0)
    /\ exitCode = 1 => (allLinks = <<>> \/ historyThrows(historyFile))

\* the history file the current process found is missing, unreadable, no
\* JSON, or JSON that is no list, and the process has begun its metadata step
\* (the last-sync record is written before the history is read)
MalformedHistoryAtMeta ==
  /\ pc # "idle"
  /\ diskAtStart[3].kind # "json"
  /\ lastSyncFile # diskAtStart[2]

\* C16: a run that finds such a history file takes the history as empty,
\* persists a history whose only record is its own, and exits with code 0
C16_MalformedHistoryIsEmpty ==
  MalformedHistoryAtMeta =>
    /\ pc = "done"
    /\ exitCode = 0
    /\ historyFile = JsonFile(<<LastSync>>)

----------------------------------------------------------------------------
(* The metadata files during a run: claims C17 and C18 *)

MetadataFiles == <<cacheFile, lastSyncFile, historyFile>>

\* the current process has not begun its metadata step: it is at one of the
\* steps before it, or it has exited from the homepage step or from the save
\* step
BeforeMetadataStep ==
  \/ pc \in {"homepage", "analyse", "count", "fetch", "assets", "save", "meta"}
  \/ pc = "exited" /\ (allLinks = <<>> \/ assetEntryThrows)

\* C17: until the metadata step, scrape-cache.json, last-sync.json and
\* sync-history.json are what they were when the process started, so a run
\* that is killed or aborts before that step leaves all three untouched
C17_MetadataUntouchedBeforeLastStep ==
  BeforeMetadataStep => MetadataFiles = diskAtStart

\* a run that followed a completed one has written content files and then
\* aborted before its metadata step
C17_Witness ==
  /\ pc = "exited"
  /\ exitCode = 1
  /\ BeforeMetadataStep
  /\ written # <<>>
  /\ lastSyncFile.kind = "json"
  /\ cache.pages # loadCache(cacheFile).pages

\* the page entries a cache file holds
PagesOfFile(file) == IF file.kind = "json" THEN file.data.pages ELSE EmptyMap

\* the current process has written scrape-cache.json
CachePersisted == pc = "done" \/ (pc = "exited" /\ ~BeforeMetadataStep)

\* the cache keys of the pages fetched successfully by the current run
FetchedKeys == {normalizeCacheKey(pageResults[i].url) : i \in DOMAIN pageResults}

\* the entry of key is the same in the cache file before and after the run:
\* absent in both, or present in both and equal
SameEntry(key) ==
  LET before == PagesOfFile(diskAtStart[1])
      after == PagesOfFile(cacheFile)
  IN /\ key \in DOMAIN before <=> key \in DOMAIN after
     /\ key \in DOMAIN before => before[key] = after[key]

EntriesKept ==
  \A key \in (DOMAIN PagesOfFile(diskAtStart[1])) \cup (DOMAIN PagesOfFile(cacheFile)) :
    key \notin FetchedKeys => SameEntry(key)

\* C18 as stated: whatever the run, incremental or full, the cache file it
\* persists has, for every key whose page it did not fetch successfully, the
\* entry the cache file had before the run
C18_UnfetchedEntriesKept == CachePersisted => EntriesKept

\* C18 as amended: that holds for incremental runs; a full run starts from an
\* empty cache, and the cache file it persists holds entries for the pages it
\* fetched and for no other
C18_UnfetchedEntriesKeptUnlessFull ==
  CachePersisted =>
    IF fullScrape THEN DOMAIN PagesOfFile(cacheFile) = FetchedKeys
    ELSE EntriesKept

\* an incremental run has completed in which one page was fetched and the
\* fetch of another page, which has a cache entry, failed
C18_Witness ==
  /\ pc = "done"
  /\ ~fullScrape
  /\ pageResults # <<>>
  /\ \E i \in DOMAIN pagesToScrape :
       /\ normalizeCacheKey(pagesToScrape[i]) \in DOMAIN PagesOfFile(diskAtStart[1])
       /\ normalizeCacheKey(pagesToScrape[i]) \notin FetchedKeys

----------------------------------------------------------------------------
(* Two pages saved under one name: claim C19 *)

PathAlphabet == {"a", "b", "+", "-", "/"}

\* the pathnames tried: "/" followed by up to MaxLen - 1 characters
SomePaths ==
  {<<"/">> \o t : t \in UNION {[1..n -> PathAlphabet] : n \in 0..(MaxLen - 1)}}

\* a page fetched from the path p
PageAt(p) ==
  fetchPage(Origin \o p,
            [ok |-> TRUE, statusCode |-> 200, lastModified |-> NoHeader, body |-> AssetBody])

\* a full run at the start of its save step, having fetched the two pages of
\* one of the given pairs of paths
SaveInitWith(pairs) ==
  /\ EnvInit
  /\ UnitsIdle
  /\ pc = "save"
  /\ fullScrape = TRUE
  /\ cache = EmptyCache
  /\ pagesScraped = 2
  /\ pagesSkipped = 0
  /\ filesUpdated = 0
  /\ inlineCounts = <<0, 0>>
  /\ \E pq \in pairs :
     LET p == pq[1]
         q == pq[2]
     IN
       /\ allLinks = <<Origin \o p, Origin \o q>>
       /\ pagesToScrape = <<Origin \o p, Origin \o q>>
       /\ pageResults = <<PageAt(p), PageAt(q)>>
  /\ idx = 3
  /\ pagesInFlight = {}
  /\ assetsToFetch = <<>>
  /\ chunkNo = 1
  /\ chunkResults = <<>>
  /\ assetResults = <<>>
  /\ exitCode = -1
  /\ gets = <<>>
  /\ probes = <<>>
  /\ assetGets = <<>>
  /\ written = <<>>
  /\ diskAtStart = <<AbsentFile, AbsentFile, AbsentFile>>

\* two pages with different paths of the same length
CollideInit ==
  SaveInitWith({pq \in SomePaths \X SomePaths : pq[1] # pq[2] /\ Len(pq[1]) = Len(pq[2])})

CollideNext ==
  \/ SaveFiles
  \/ UpdateMetadata

SpecCollide == CollideInit /\ [][CollideNext]_vars

\* the characters of PathAlphabet that are no letter, digit or underscore: the
\* ones the sanitising replace turns into "-", and "-" itself
Sanitized(c) == c \in {"+", "/", "-"}

\* the paths of the two pages differ only where both have such a character
DifferOnlyInSanitized ==
  LET p == ParseURL(pagesToScrape[1]).pathname
      q == ParseURL(pagesToScrape[2]).pathname
  IN \A i \in DOMAIN p : p[i] # q[i] => (Sanitized(p[i]) /\ Sanitized(q[i]))

----------------------------------------------------------------------------
(* The page loop: claim C20 *)

\* the number of page GETs the loop of step 3 has sent so far
PagesRequested ==
  IF pc \in {"idle", "homepage", "analyse", "count"} THEN 0
  ELSE IF pc = "fetch" THEN idx - 1
  ELSE Len(pagesToScrape)

\* C20: in the changed-pages phase at most one page GET is in flight, the
\* pages are requested in the order of the work list, and the page in flight
\* is the last one requested: every earlier request has resolved or failed
C20_OnePageGetAtATime ==
  /\ Cardinality(pagesInFlight) <= 1
  /\ pagesInFlight \subseteq {PagesRequested}
  /\ pc # "idle" =>
       SubSeq(gets, Len(gets) - PagesRequested + 1, Len(gets))
         = SubSeq(pagesToScrape, 1, PagesRequested)

\* the fourth page of a longer work list is in flight, after two fetches that
\* resolved and one that failed
C20_Witness ==
  /\ pc = "fetch"
  /\ pagesInFlight = {4}
  /\ Len(pagesToScrape) > 4
  /\ Len(pageResults) = 2

----------------------------------------------------------------------------
(* The staleness decision and the cached hashes: claim C21 *)

OtherHash == <<"sha256", "other">>

\* the page entries that differ from pages only in hash fields
Rehashed(pages) ==
  {[k \in DOMAIN pages |->
     IF k \in S THEN [pages[k] EXCEPT !.hash = OtherHash] ELSE pages[k]] :
   S \in SUBSET DOMAIN pages}

----------------------------------------------------------------------------
(* Which URLs are probed during change analysis: claim C23 *)

\* C23: the detector's rules apply in order, the first match winning: during
\* change analysis a HEAD probe is sent for a URL only if the run is not a
\* full rescrape, the URL has a cache entry and that entry is at most 24
\* hours old; the probed URLs are links already gone through, each probed
\* at most once
C23_ProbeOnlyForFreshCachedEntries ==
  pc \in {"analyse"} \cup Analysed =>
    /\ \A i \in DOMAIN probes :
         /\ ~fullScrape
         /\ FreshEntry(probes[i].url)
         /\ probes[i].url \in Range(Decided)
    /\ \A i, j \in DOMAIN probes : probes[i].url = probes[j].url => i = j

\* change analysis probed one URL and decided another, whose entry is older
\* than 24 hours, without a probe
C23_Witness ==
  /\ pc = "count"
  /\ ~fullScrape
  /\ probes # <<>>
  /\ \E url \in Range(allLinks) :
       /\ InCache(normalizeCacheKey(url))
       /\ ~FreshEntry(url)
       /\ ProbesOf(url) = {}

----------------------------------------------------------------------------
(* A probe that fails: claim C26 *)

\* the HEAD probe of url succeeds: the request is answered
ProbeSucceeds(url) == \E r \in Responses(url) : r.ok

\* C26: on an incremental run a URL is left out of the work list, and counted
\* as unchanged, only if its HEAD probe of this run was answered: a URL whose
\* probe fails is in the work list
C26_SkippedOnlyAfterAnsweredProbe ==
  ~fullScrape /\ pc \in {"analyse"} \cup Analysed =>
    \A i \in DOMAIN Decided :
      Decided[i] \notin Range(pagesToScrape) => ProbeSucceeds(Decided[i])

----------------------------------------------------------------------------
(* Where the link set comes from: claim C29 *)

\* the links of the homepage a run can have used: those extracted from the
\* homepage as served, or the cached list
HomepageLinks ==
  UNION {Range(fetchPage(SiteUrl, r).links) : r \in Served(SiteUrl)}
  \cup Range(CachedLinks)

\* C29: every URL of the link set, and so of the work list, is the seed site
\* URL or a link taken from the homepage (freshly extracted, or from the
\* homepage's cached link list) and has the origin of the site URL; the
\* links found on other pages are never added
C29_LinkSetIsSeedAndHomepageLinks ==
  pc \in {"analyse"} \cup Analysed =>
    /\ \A url \in Range(allLinks) :
         /\ url = SiteUrl \/ url \in HomepageLinks
         /\ ValidURL(url)
         /\ ParseURL(url).origin = ParseURL(SiteUrl).origin
    /\ Range(pagesToScrape) \subseteq Range(allLinks)

\* a page other than the homepage was fetched, and a link found on it is not
\* in the link set
C29_Witness ==
  /\ pc = "assets"
  /\ Len(allLinks) > 1
  /\ \E i \in DOMAIN pageResults :
       /\ pageResults[i].url # SiteUrl
       /\ \E l \in Range(pageResults[i].links) : l \notin Range(allLinks)

----------------------------------------------------------------------------
(* When the homepage is fetched in the resolution phase: claim C30 *)

\* an incremental run whose cache holds a homepage entry with a non-empty
\* link list, the homepage's HEAD probe returning the cached Last-Modified
HomepageUnchanged ==
  /\ ~fullScrape
  /\ InCache(normalizeCacheKey(SiteUrl))
  /\ Len(EntryOf(SiteUrl).links) > 0
  /\ \E head \in Responses(SiteUrl) :
       getLastModified(head) = EntryOf(SiteUrl).lastModified

\* C30: on an incremental run whose cache holds a homepage entry with a
\* non-empty link list and whose HEAD probe returns the cached Last-Modified,
\* homepage resolution sends no GET and builds the link set from the cached
\* links; in every other case it sends one GET for the homepage, also when
\* that GET fails and ends the process
C30_HomepageGetUnlessUnchanged ==
  /\ pc \in {"analyse", "count"} =>
       IF HomepageUnchanged
       THEN gets = <<>> /\ allLinks = buildAllLinks(EntryOf(SiteUrl).links)
       ELSE gets = <<SiteUrl>>
  /\ (pc = "exited" /\ allLinks = <<>>) =>
       ~HomepageUnchanged /\ gets = <<SiteUrl>>

\* homepage resolution used the cached links, of which there are several,
\* and sent no GET
C30_Witness ==
  /\ pc = "analyse"
  /\ HomepageUnchanged
  /\ gets = <<>>
  /\ Len(allLinks) > 2

----------------------------------------------------------------------------
(* Which assets are requested: claim C28 *)

\* the (URL, kind) pairs extracted from the pages of a list of page results
PairsOf(pages) ==
  UNION {{[url |-> u, type |-> "css"] : u \in Range(pages[i].assets.css)}
         \cup {[url |-> u, type |-> "js"] : u \in Range(pages[i].assets.js)} :
         i \in DOMAIN pages}

\* C28: the asset fetches of a run are the (URL, kind) pairs extracted from
\* the pages fetched successfully in the changed-pages phase, each pair
\* requested once: at every moment the requests sent are pairs of those
\* pages without repetition, and when the pool is through they are all of
\* them; the pages fetched are pages of the work list that answered 200
C28_AssetFetchesAreFetchedPagesAssets ==
  /\ \A i, j \in DOMAIN assetGets : assetGets[i] = assetGets[j] => i = j
  /\ Range(assetGets) \subseteq PairsOf(pageResults)
  /\ pc \in {"save", "meta", "done"} => Range(assetGets) = PairsOf(pageResults)
  /\ \A i \in DOMAIN pageResults :
       /\ pageResults[i].url \in Range(pagesToScrape)
       /\ Served(pageResults[i].url) # {}

\* the pool is through; two fetched pages refer to the same script, and a
\* page of the link set was skipped or failed and is not among the results
C28_Witness ==
  /\ pc = "save"
  /\ assetGets # <<>>
  /\ \E i, j \in DOMAIN pageResults :
       i # j /\ PairsOf(<<pageResults[i]>>) \cap PairsOf(<<pageResults[j]>>) # {}
  /\ Len(pageResults) < Len(allLinks)

----------------------------------------------------------------------------
(* The asset groups one after the other: claim C27 *)

\* the groups are consecutive slices of CONCURRENT_ASSET_LIMIT assets, only
\* the last may be shorter, none is empty, and their concatenation is the list
ChunksAreSlices ==
  /\ Flatten(Chunks, 1) = assetsToFetch
  /\ \A k \in DOMAIN Chunks :
       /\ Len(Chunks[k]) >= 1
       /\ Len(Chunks[k]) <= CONCURRENT_ASSET_LIMIT
       /\ k < Len(Chunks) => Len(Chunks[k]) = CONCURRENT_ASSET_LIMIT

\* the requests sent so far are those of the groups before the current one,
\* and those of the current one once it has started
SentUpToCurrentChunk ==
  pc = "assets" =>
    assetGets = Flatten(SubSeq(Chunks, 1,
                  IF chunkResults # <<>> THEN chunkNo ELSE chunkNo - 1), 1)

\* a step that sends requests sends those of the current group, with nothing
\* in flight; a step that moves to the next group finds every request of the
\* current one sent and answered
OneChunkAfterTheOther ==
  /\ assetGets' # assetGets =>
       /\ InFlight = {}
       /\ assetGets' = assetGets \o Chunks[chunkNo]
  /\ chunkNo' # chunkNo =>
       /\ chunkNo' = chunkNo + 1
       /\ Len(chunkResults) = Len(Chunks[chunkNo])
       /\ InFlight = {}

\* C27: the asset list is split into consecutive slices of 5 (only the last
\* may be shorter, none is empty, their concatenation is the list), and no
\* fetch of a group starts before every fetch of the group before it has
\* completed, with content, with a failure or with a status other than 200
C27_GroupsStrictlySequential ==
  /\ [](ChunksAreSlices /\ SentUpToCurrentChunk)
  /\ [][OneChunkAfterTheOther]_vars

\* seven assets: the second group, shorter than the first, has started, and a
\* fetch of the first group failed
C27_Witness ==
  /\ pc = "assets"
  /\ Len(assetsToFetch) = CONCURRENT_ASSET_LIMIT + 2
  /\ chunkNo = 2
  /\ InFlight # {}
  /\ Len(assetResults) < CONCURRENT_ASSET_LIMIT

----------------------------------------------------------------------------
(* fetchUrl and getLastModified against a server that redirects: claims C24
   and C25 *)

MaxUrls == 3
MaxHops == 5

\* the URLs of the server under test
FetchUrls == 1..MaxUrls

\* what the server does with a request for a URL: it answers 3xx with a
\* Location that resolves to a URL, or with a Location that new URL() does not
\* accept (such as "http://["); it answers with anything else, a 3xx without
\* Location included; the connection fails; or it never answers
Redirect(to) == [kind |-> "redirect", to |-> to, statusCode |-> 302, lastModified |-> NoHeader]
BadRedirect == [kind |-> "badredirect", to |-> 0, statusCode |-> 302, lastModified |-> NoHeader]
Final(status, lm) == [kind |-> "final", to |-> 0, statusCode |-> status, lastModified |-> lm]
Refused == [kind |-> "error", to |-> 0, statusCode |-> 0, lastModified |-> NoHeader]
Silent == [kind |-> "silent", to |-> 0, statusCode |-> 0, lastModified |-> NoHeader]

Answers ==
  {Redirect(to) : to \in FetchUrls}
  \cup {BadRedirect, Refused, Silent, Final(200, "d1"), Final(200, NoHeader),
        Final(404, "d1"), Final(301, NoHeader)}

\* options.method || 'GET'
Methods == {"GET", "HEAD"}

\* a call of fetchUrl(url, {method}), or of getLastModified(url), whose first
\* request has been sent. at is the URL of the latest request, sent the
\* requests made, answered the URLs whose request was answered with a
\* redirect that was followed, hops their number (counted up to MaxHops)
StartCall(op, method, url) ==
  [state |-> "pending", op |-> op, method |-> method, url |-> url, at |-> url,
   sent |-> {<<url, method>>}, answered |-> {}, hops |-> 0, why |-> "",
   outcome |-> NetErr, value |-> Null]

FetchInit ==
  /\ EnvInit
  /\ ProcInit
  /\ KeyIdle
  /\ WorkerIdle
  /\ remote \in [FetchUrls -> Answers]
  /\ \E method \in Methods :
     \E op \in (IF method = "HEAD" THEN {"fetchUrl", "getLastModified"} ELSE {"fetchUrl"}) :
       call = StartCall(op, method, 1)

hopMethod_AlwaysGet(c) == "GET"

\* this.fetchUrl(redirectUrl, options): the options of the call are passed on
hopMethod(c) == c.method

\* the response callback of the latest request: a redirect is followed by a
\* new request, whatever the number of requests made so far; new URL() throwing
\* inside the callback is an uncaught exception, which ends the process;
\* any other response resolves the call
OnResponse ==
  /\ call.state = "pending"
  /\ LET a == remote[call.at] IN
     /\ a.kind \in {"redirect", "badredirect", "final"}
     /\ call' =
          IF a.kind = "redirect" THEN
            [call EXCEPT !.at = a.to,
                         !.sent = @ \cup {<<a.to, hopMethod(call)>>},
                         !.answered = @ \cup {call.at},
                         !.hops = IF @ < MaxHops THEN @ + 1 ELSE @]
          ELSE IF a.kind = "badredirect" THEN
            [call EXCEPT !.state = "crashed", !.why = "uncaught"]
          ELSE
            [call EXCEPT !.state = "resolved",
                         !.outcome = [ok |-> TRUE, statusCode |-> a.statusCode,
                                      lastModified |-> a.lastModified,
                                      body |-> NotFoundBody]]
  /\ UNCHANGED <<envVars, diskVars, runs, procVars, prevRun, keyVars, remote, workerVars>>

\* req.on('error', reject)
OnError ==
  /\ call.state = "pending"
  /\ remote[call.at].kind = "error"
  /\ call' = [call EXCEPT !.state = "rejected", !.why = "error"]
  /\ UNCHANGED <<envVars, diskVars, runs, procVars, prevRun, keyVars, remote, workerVars>>

\* the requests of the call that can still emit 'timeout': the latest one when
\* the server does not answer it, and every one answered with a redirect,
\* whose response is never read and whose connection may stay open and idle
MayTimeOut ==
  (IF remote[call.at].kind = "silent" THEN {call.at} ELSE {}) \cup call.answered

\* req.on('timeout', ...): the request is destroyed and the call rejected
OnTimeout ==
  /\ call.state = "pending"
  /\ MayTimeOut # {}
  /\ call' = [call EXCEPT !.state = "rejected", !.why = "timeout"]
  /\ UNCHANGED <<envVars, diskVars, runs, procVars, prevRun, keyVars, remote, workerVars>>

\* getLastModified: the await has returned or thrown
ProbeReturns ==
  /\ call.op = "getLastModified"
  /\ call.state \in {"resolved", "rejected"}
  /\ call' = [call EXCEPT !.state = "returned",
                          !.value = getLastModified(IF call.state = "resolved"
                                                    THEN call.outcome ELSE NetErr)]
  /\ UNCHANGED <<envVars, diskVars, runs, procVars, prevRun, keyVars, remote, workerVars>>

FetchNext == OnResponse \/ OnError \/ OnTimeout \/ ProbeReturns

SpecFetch == FetchInit /\ [][FetchNext]_vars

\* the URLs a call for url requests when every redirect is followed
RECURSIVE Chain(_, _)
Chain(u, seen) ==
  IF u \in seen \/ remote[u].kind # "redirect" THEN seen \cup {u}
  ELSE Chain(remote[u].to, seen \cup {u})

\* the redirects of the server form a cycle the call cannot leave
RedirectCycle == \A u \in Chain(call.url, {}) : remote[u].kind = "redirect"

\* every request of the call has the method of the call and goes to a URL of
\* the redirect chain of its first URL
SameMethodAlongChain ==
  \A r \in call.sent : r[2] = call.method /\ r[1] \in Chain(call.url, {})

C25_ProbeNeverRaises ==
  call.op = "getLastModified" =>
    /\ call.state # "crashed"
    /\ call.state = "returned" =>
         call.value = IF call.why \in {"error", "timeout"} THEN Null
                      ELSE HeaderOrNull(remote[call.at].lastModified)

----------------------------------------------------------------------------
(* The webhook worker: claim C22 *)

MaxRequests == 2

SecretNames == {"GITHUB_TOKEN", "GITHUB_REPO"}

WebhookPath == "/webhook/webflow"
WorkerPaths == {"/health", WebhookPath, "/other"}
WorkerMethods == {"GET", "POST", "OPTIONS", "PUT"}

\* request bodies: none; JSON objects with a triggerType, with a type, JSON
\* null, a JSON number; and text that is no JSON
Bodies == {"empty", "triggerType", "type", "null", "number", "text"}

Requests == [method : WorkerMethods, path : WorkerPaths, body : Bodies]

\* payload.triggerType || payload.type || 'site_publish', for the payload of
\* a body ({ raw: true } when JSON.parse throws); reading a property of null
\* throws
EventThrows(body) == body = "null"
eventType(body) ==
  IF body = "triggerType" THEN "t"
  ELSE IF body = "type" THEN "y"
  ELSE "site_publish"

Reply(status, error, received, event) ==
  [status |-> status, error |-> error, received |-> received, event |-> event]

\* what a client gets when the module did not load: the platform's own
\* error, no response of the handler
PlatformError == Reply(0, "no handler", FALSE, "")

\* !githubToken || !githubRepo is false
secretsSet(env) == SecretNames \subseteq env

\* fetch(request, env, ctx): the response returned
fetch(req, env) ==
  IF req.method = "OPTIONS" THEN Reply(204, "", FALSE, "")
  ELSE IF req.path = "/health" /\ req.method = "GET" THEN Reply(200, "", FALSE, "")
  ELSE IF req.path = WebhookPath /\ req.method = "GET" THEN Reply(200, "", FALSE, "")
  ELSE IF req.path = WebhookPath /\ req.method = "POST" THEN
    IF ~secretsSet(env) THEN Reply(500, "Server configuration error", FALSE, "")
    ELSE IF EventThrows(req.body) THEN Reply(500, "Internal server error", FALSE, "")
    ELSE Reply(200, "", TRUE, eventType(req.body))
  ELSE Reply(404, "Not found", FALSE, "")

\* whether fetch hands a dispatch task to ctx.waitUntil
schedules(req, env) ==
  /\ req.method = "POST"
  /\ req.path = WebhookPath
  /\ secretsSet(env)
  /\ ~EventThrows(req.body)

WorkerInit ==
  /\ EnvInit
  /\ ProcInit
  /\ KeyIdle
  /\ FetchIdle
  /\ globals \in {{}, {"document"}}
  /\ secrets \in SUBSET SecretNames
  /\ loaded = "no"
  /\ request = NoRequest
  /\ response = NoResponse
  /\ scheduled = 0
  /\ dispatches = <<>>

\* the module is evaluated: after the export, its last statement calls
\* document.addEventListener, a ReferenceError where the global scope has no
\* document, as in a Workers isolate
LoadModule ==
  /\ loaded = "no"
  /\ loaded' = IF "document" \in globals THEN "ok" ELSE "failed"
  /\ UNCHANGED <<envVars, diskVars, runs, procVars, prevRun, keyVars, fetchVars,
                 globals, secrets, request, response, scheduled, dispatches>>

\* a request arrives
Receive ==
  /\ loaded # "no"
  /\ request = NoRequest
  /\ Len(dispatches) < MaxRequests
  /\ request' \in Requests
  /\ UNCHANGED <<envVars, diskVars, runs, procVars, prevRun, keyVars, fetchVars,
                 globals, secrets, loaded, response, scheduled, dispatches>>

\* the handler returns its response, having scheduled the dispatch if it
\* came that far; without a loaded module there is no handler to run
Respond ==
  /\ request # NoRequest
  /\ response = NoResponse
  /\ IF loaded = "ok"
     THEN /\ response' = fetch(request, secrets)
          /\ scheduled' = IF schedules(request, secrets) THEN scheduled + 1 ELSE scheduled
     ELSE /\ response' = PlatformError
          /\ scheduled' = scheduled
  /\ UNCHANGED <<envVars, diskVars, runs, procVars, prevRun, keyVars, fetchVars,
                 globals, secrets, loaded, request, dispatches>>

\* the task given to ctx.waitUntil runs: triggerGitHubWorkflow posts the
\* repository_dispatch, which GitHub accepts or refuses, or which fails; an
\* error is logged and goes no further
RunDispatch ==
  /\ scheduled > 0
  /\ \E outcome \in {"ok", "refused", "failed"} :
       dispatches' = Append(dispatches,
         [event_type |-> "webflow_publish", event |-> response.event, outcome |-> outcome])
  /\ scheduled' = scheduled - 1
  /\ UNCHANGED <<envVars, diskVars, runs, procVars, prevRun, keyVars, fetchVars,
                 globals, secrets, loaded, request, response>>

\* the request is over
Finish ==
  /\ response # NoResponse
  /\ scheduled = 0
  /\ request' = NoRequest
  /\ response' = NoResponse
  /\ UNCHANGED <<envVars, diskVars, runs, procVars, prevRun, keyVars, fetchVars,
                 globals, secrets, loaded, scheduled, dispatches>>

WorkerNext == LoadModule \/ Receive \/ Respond \/ RunDispatch \/ Finish

SpecWorker == WorkerInit /\ [][WorkerNext]_vars

\* a POST to the webhook path has been answered while a secret is missing
AnsweredWithoutSecrets ==
  /\ request # NoRequest
  /\ request.method = "POST"
  /\ request.path = WebhookPath
  /\ ~(SecretNames \subseteq secrets)
  /\ response # NoResponse

\* C22: a POST to /webhook/webflow while GITHUB_TOKEN or GITHUB_REPO is not
\* configured is answered with status 500 and the error "Server
\* configuration error", and no repository_dispatch call is made or scheduled
C22_MissingSecretsGiveConfigError ==
  AnsweredWithoutSecrets =>
    /\ response.status = 500
    /\ response.error = "Server configuration error"
    /\ scheduled = 0
    /\ dispatches = <<>>

----------------------------------------------------------------------------
(* Letter case in file names: claim C31 *)

CaseAlphabet == {"a", "A", "/"}

\* the pathnames tried: "/" followed by up to MaxLen - 1 characters
CasePaths ==
  {<<"/">> \o t : t \in UNION {[1..n -> CaseAlphabet] : n \in 0..(MaxLen - 1)}}

\* two pages with any two of these paths
CaseInit == SaveInitWith(CasePaths \X CasePaths)

SpecCase == CaseInit /\ [][CollideNext]_vars

UpperCase ==
  {"A", "B", "C", "D", "E", "F", "G", "H", "I", "J", "K", "L", "M", "N", "O",
   "P", "Q", "R", "S", "T", "U", "V", "W", "X", "Y", "Z"}

\* the paths of the two pages differ only in the case of letters
DifferOnlyInCase ==
  LET p == ParseURL(pagesToScrape[1]).pathname
      q == ParseURL(pagesToScrape[2]).pathname
      lower(c) == IF c = "A" THEN "a" ELSE c
  IN Len(p) = Len(q) /\ \A i \in DOMAIN p : lower(p[i]) = lower(q[i])

\* C31: urlToFilename lowercases the path: the filename of a well-formed URL
\* has no upper-case letter, as has no HTML file written; two URLs whose
\* paths differ only in letter case get the same filename; and the root
\* path gets index
C31_FilenamesAreLowerCase ==
  /\ \A i \in DOMAIN pagesToScrape :
       /\ Range(urlToFilename(pagesToScrape[i], ".html")) \cap UpperCase = {}
       /\ ParseURL(pagesToScrape[i]).pathname = <<"/">> =>
            urlToFilename(pagesToScrape[i], ".html") = Append(IndexName, ".html")
  /\ \A i \in DOMAIN written : Range(written[i][2]) \cap UpperCase = {}
  /\ DifferOnlyInCase =>
       urlToFilename(pagesToScrape[1], ".html") = urlToFilename(pagesToScrape[2], ".html")

----------------------------------------------------------------------------
(* Inline scripts: claim C32 *)

\* the script blocks of a document that have no src attribute and a trimmed
\* body of at least 100 characters, in document order
SrclessBlocksOfHundred(html) ==
  SelectSeq(html.elements, LAMBDA e : e.tag = "script" /\ e.url = <<>> /\ e.len >= 100)

\* C32: the inline scripts extracted from a fetched page are, in document
\* order, exactly its script blocks without a src attribute whose trimmed
\* body has at least 100 characters: the body of a block with a src
\* attribute is never among them, one of 99 characters is dropped and one of
\* 100 is kept
C32_InlineScriptsAreSrclessBlocks ==
  \A i \in DOMAIN pageResults :
    pageResults[i].inlineScripts = SrclessBlocksOfHundred(pageResults[i].html)

\* the part of C32 about the length: among the blocks without a src
\* attribute, exactly those of at least 100 characters are extracted
C32_LengthBoundary ==
  \A i \in DOMAIN pageResults :
    SelectSeq(pageResults[i].inlineScripts, LAMBDA e : e.url = <<>>)
      = SrclessBlocksOfHundred(pageResults[i].html)

----------------------------------------------------------------------------
(* The counts of a run: claim C33 *)

\* C33: the pages-scraped count of the record a finished run has written,
\* which is also the count of its final report, is the number of pages the
\* run fetched successfully: a page whose fetch failed is not counted
C33_ScrapedCountIsPagesFetched ==
  pc = "done" =>
    /\ lastSyncFile.data.pagesScraped = Len(pageResults)
    /\ pagesScraped = Len(pageResults)

----------------------------------------------------------------------------
(* Page requests of one run: claim C34 *)

\* C34: within one run no page URL is requested with a full GET more than
\* once, the GET of the homepage resolution and those of the changed-pages
\* loop taken together
C34_NoPageFetchedTwice ==
  \A i \in DOMAIN gets : \A j \in DOMAIN gets : gets[i] = gets[j] => i = j

----------------------------------------------------------------------------
(* One page per cache key: claim C35 *)

\* the HTML files among the files a run has written
HtmlWritten == SelectSeq(written, LAMBDA f : f[1] = "html")

\* C35: no two URLs of a run's link set normalize to the same cache key, and
\* no HTML file is written twice in one run; the seed URL and a homepage
\* link to the root path are one page
C35_OneUrlPerCacheKey ==
  /\ \A i \in DOMAIN allLinks : \A j \in DOMAIN allLinks :
       normalizeCacheKey(allLinks[i]) = normalizeCacheKey(allLinks[j]) => i = j
  /\ \A i \in DOMAIN HtmlWritten : \A j \in DOMAIN HtmlWritten :
       HtmlWritten[i] = HtmlWritten[j] => i = j

----------------------------------------------------------------------------
(* The sync record: claim C36 *)

\* the process has written last-sync.json and has not yet gone
RecordWritten ==
  /\ pc \in {"done", "exited"}
  /\ lastSyncFile.kind = "json"
  /\ lastSyncFile.data.run = runs

\* the counts of a record add up and there is at least one page
CountsAddUp(rec) ==
  /\ rec.pagesScraped + rec.pagesSkipped = rec.totalPages
  /\ rec.totalPages >= 1

\* the record is the first element of sync-history.json
HeadsHistory(rec) ==
  /\ historyFile.kind = "json"
  /\ Len(historyFile.data) >= 1
  /\ historyFile.data[1] = rec

\* C36: in every record written the scraped and skipped counts add up to
\* the total, the total is at least 1, and the record of last-sync.json is
\* the record at index 0 of sync-history.json
C36_RecordConsistentAndHeadsHistory ==
  RecordWritten => CountsAddUp(lastSyncFile.data) /\ HeadsHistory(lastSyncFile.data)

\* the part of C36 about the counts
C36_CountsAddUp ==
  RecordWritten => CountsAddUp(lastSyncFile.data)

\* the part of C36 about the history, for runs that return
C36_HeadsHistoryWhenDone ==
  pc = "done" => HeadsHistory(lastSyncFile.data)

----------------------------------------------------------------------------
(* The webhook with its secrets configured: claim C37 *)

\* a POST to the webhook path has been answered while both secrets are set
AnsweredWithSecrets ==
  /\ request # NoRequest
  /\ request.method = "POST"
  /\ request.path = WebhookPath
  /\ SecretNames \subseteq secrets
  /\ response # NoResponse

\* the request is acknowledged and has one dispatch of its own, waiting or
\* made, whatever its outcome
Acknowledged ==
  /\ response.status = 200
  /\ response.received
  /\ \/ scheduled = 1
     \/ /\ scheduled = 0
        /\ dispatches # <<>>
        /\ dispatches[Len(dispatches)].event = response.event

\* C37: with both secrets configured a POST to /webhook/webflow is answered
\* with status 200 and received: true whatever its body and whatever the
\* outcome of the repository_dispatch call; one dispatch call is scheduled
\* for it, every dispatch call has event_type webflow_publish, and a failed
\* dispatch does not change the answer
C37_PostAlwaysAcknowledged ==
  /\ scheduled <= 1
  /\ \A i \in DOMAIN dispatches : dispatches[i].event_type = "webflow_publish"
  /\ AnsweredWithSecrets => Acknowledged

\* the part of C37 that holds: where the module has loaded and the body is
\* not the JSON value null
C37_AcknowledgedUnlessNullBody ==
  /\ scheduled <= 1
  /\ \A i \in DOMAIN dispatches : dispatches[i].event_type = "webflow_publish"
  /\ (AnsweredWithSecrets /\ loaded = "ok" /\ request.body # "null") => Acknowledged

====
